---- MODULE Spec2Model ----
(***************************************************************************)
(* Model of the knowledge-base view of ubp_core_studio_app:                *)
(* components/MemoryStatus.tsx (the parsedSystem / categoryStats memo and  *)
(* its categorize cascade), driven by the systemKb text of the App.        *)
(*                                                                         *)
(* Texts are TLA+ strings; JavaScript values are records built by the      *)
(* JStr/JNum/... constructors below.  A JavaScript exception is modelled   *)
(* as a result record whose threw field is TRUE.  The texts of the model   *)
(* contain no backslash escapes, no fractional numbers and only ASCII      *)
(* letters, so JSON.parse and toUpperCase are modelled on that fragment.   *)
(***************************************************************************)
EXTENDS Integers, Sequences, FiniteSets, TLC

VARIABLES
    systemKb,        \* App state: the system knowledge-base text
    entries,         \* parsedSystem.entries of the last render
    validJsonCount,  \* parsedSystem.validJsonCount
    markdownCount,   \* parsedSystem.markdownCount
    categoryStats,   \* categoryStats of the last render
    escaped,         \* TRUE iff the memo callback let an exception out
    lineScanRan,     \* TRUE iff the catch block (line scan) ran in the last render
    resourcesLoaded, \* TRUE once the startup fetch has set systemKb
    cId, cName, cTags, \* arguments of a direct categorize call
    cLabel,          \* its result ("" while not yet called)
    classified,      \* history: the result of the first classification of each text
    beliefsKb,       \* App state: the beliefs knowledge-base text
    parsedBeliefs,   \* parsedBeliefs of the last render
    hashMemoryKb,    \* App state: the hash-memory knowledge-base text
    parsedHash,      \* parsedHash of the last render
    studyKb,         \* App state: the study knowledge-base text
    files,           \* App state: the workspace file list
    chatMessages,    \* App state: the chat messages
    isPyodideReady,  \* App state: the Python runtime is up
    snapshot,        \* the study file produced by the last Save Study
    loadOutcome,     \* the alert of the last Load Study ("none" after any other step)
    isChatLoading,   \* App state: a chat request is awaiting its answer
    isExecuting,     \* App state: the Run button is disabled, a run is in progress
    runPc,           \* position of the handleRunCode invocation in progress
    pyCalls,         \* PyodideService.runPython: position and result of each caller's call
    artifacts,       \* the artifact files present in the kernel's workspace directory
    now,             \* Date.now(), in milliseconds
    lastHealthCheck, \* LocalLLMService.lastHealthCheck
    isAvailable,     \* LocalLLMService.isAvailable
    llmCalls,        \* position and last answer of each caller of the LocalLLMService
    completed,       \* history: the health check that completed last
    pyodide,         \* PyodideService.pyodide: 0 for null, or the runtime it holds
    initCalls,       \* position of each caller's call of PyodideService.initialize
    loads,           \* history: the calls of loadPyodide() since the last reset
    frames,          \* FOMManager.frames: the frame ids, in the order of the dict
    active_frame,    \* FOMManager.active_frame
    lastCall         \* history: the last call of a FOMManager method, what it returned
                     \* and the active frame before it

vars == <<systemKb, entries, validJsonCount, markdownCount, categoryStats,
          escaped, lineScanRan, resourcesLoaded, cId, cName, cTags, cLabel,
          classified, beliefsKb, parsedBeliefs, hashMemoryKb, parsedHash,
          studyKb, files, chatMessages, isPyodideReady, snapshot, loadOutcome,
          isChatLoading, isExecuting, runPc, pyCalls, artifacts,
          now, lastHealthCheck, isAvailable, llmCalls, completed,
          pyodide, initCalls, loads, frames, active_frame, lastCall>>

kbVars == <<systemKb, entries, validJsonCount, markdownCount, categoryStats,
            escaped, lineScanRan, resourcesLoaded>>

catVars == <<cId, cName, cTags, cLabel>>

beliefVars == <<beliefsKb, parsedBeliefs>>

hashVars == <<hashMemoryKb, parsedHash>>

studyVars == <<studyKb, files, chatMessages, isPyodideReady, snapshot, loadOutcome,
               isChatLoading>>

runVars == <<isExecuting, runPc, pyCalls, artifacts>>

\* the state of the services and of the handlers that await them
llmVars == <<now, lastHealthCheck, isAvailable, llmCalls, completed>>

initVars == <<pyodide, initCalls, loads>>

fomVars == <<frames, active_frame, lastCall>>

serviceVars == <<runVars, llmVars, initVars, fomVars>>

\* everything but the system knowledge base and the categorize call
otherVars == <<classified, beliefVars, hashVars, studyVars, serviceVars>>

----------------------------------------------------------------------------
(* Bounds *)

\* longest tag list of a direct categorize call
MaxTags == 2

\* most lines of a knowledge-base text built from LinePool
MaxLines == 3

----------------------------------------------------------------------------
(* String primitives of the JavaScript runtime *)

CharAt(s, i) == SubSeq(s, i, i)

\* the least element of a non-empty set of integers
Least(S) == CHOOSE x \in S : \A y \in S : x <= y

UpperMap ==
    [a |-> "A", b |-> "B", c |-> "C", d |-> "D", e |-> "E", f |-> "F", g |-> "G",
     h |-> "H", i |-> "I", j |-> "J", k |-> "K", l |-> "L", m |-> "M", n |-> "N",
     o |-> "O", p |-> "P", q |-> "Q", r |-> "R", s |-> "S", t |-> "T", u |-> "U",
     v |-> "V", w |-> "W", x |-> "X", y |-> "Y", z |-> "Z"]

\* s.toUpperCase(), character by character (the string is halved to keep the
\* evaluation shallow)
RECURSIVE toUpperCase(_)
toUpperCase(s) ==
    IF s = "" THEN ""
    ELSE IF Len(s) = 1 THEN (IF s \in DOMAIN UpperMap THEN UpperMap[s] ELSE s)
    ELSE LET h == Len(s) \div 2
         IN  toUpperCase(SubSeq(s, 1, h)) \o toUpperCase(SubSeq(s, h + 1, Len(s)))

WhiteSpace == {" ", "\t", "\n", "\r"}

RECURSIVE trimStart(_)
trimStart(s) ==
    IF s /= "" /\ Head(s) \in WhiteSpace THEN trimStart(Tail(s)) ELSE s

RECURSIVE trimEnd(_)
trimEnd(s) ==
    IF s /= "" /\ CharAt(s, Len(s)) \in WhiteSpace
    THEN trimEnd(SubSeq(s, 1, Len(s) - 1))
    ELSE s

trim(s) == trimEnd(trimStart(s))

startsWith(s, p) == Len(p) <= Len(s) /\ SubSeq(s, 1, Len(p)) = p

startsWithAt(s, i, p) == i + Len(p) - 1 <= Len(s) /\ SubSeq(s, i, i + Len(p) - 1) = p

includes(s, p) == \E i \in 1..(Len(s) - Len(p) + 1) : SubSeq(s, i, i + Len(p) - 1) = p

\* s.split(sep) for a one-character separator
RECURSIVE splitFrom(_, _, _)
splitFrom(s, sep, start) ==
    LET seps == {i \in start..Len(s) : CharAt(s, i) = sep}
    IN  IF seps = {} THEN <<SubSeq(s, start, Len(s))>>
        ELSE <<SubSeq(s, start, Least(seps) - 1)>> \o splitFrom(s, sep, Least(seps) + 1)

split(s, sep) == splitFrom(s, sep, 1)

\* arr.includes(x) on a sequence
arrIncludes(arr, x) == \E i \in 1..Len(arr) : arr[i] = x

includesAny(s, kws) == \E i \in 1..Len(kws) : includes(s, kws[i])

----------------------------------------------------------------------------
(* JavaScript values *)

JUndef      == [t |-> "undefined", s |-> "", n |-> 0, items |-> <<>>, keys |-> <<>>]
JNull       == [t |-> "null",      s |-> "", n |-> 0, items |-> <<>>, keys |-> <<>>]
JStr(str)   == [t |-> "string",    s |-> str, n |-> 0, items |-> <<>>, keys |-> <<>>]
JNum(num)   == [t |-> "number",    s |-> "", n |-> num, items |-> <<>>, keys |-> <<>>]
JBool(b)    == [t |-> "boolean",   s |-> "", n |-> (IF b THEN 1 ELSE 0), items |-> <<>>, keys |-> <<>>]
JArr(xs)    == [t |-> "array",     s |-> "", n |-> 0, items |-> xs, keys |-> <<>>]
JObj(ks, xs) == [t |-> "object",   s |-> "", n |-> 0, items |-> xs, keys |-> ks]

\* ToBoolean(v), as used by ||
Truthy(v) ==
    CASE v.t = "undefined" -> FALSE
      [] v.t = "null"      -> FALSE
      [] v.t = "string"    -> v.s /= ""
      [] v.t = "number"    -> v.n /= 0
      [] v.t = "boolean"   -> v.n = 1
      [] OTHER             -> TRUE

\* a || b
OrElse(a, b) == IF Truthy(a) THEN a ELSE b

\* item.<key> on a value that is neither null nor undefined: only a plain
\* object has own properties named ubp_id, name, tags, fingerprint, nrci
GetProp(item, key) ==
    IF item.t = "object" /\ \E i \in 1..Len(item.keys) : item.keys[i] = key
    THEN item.items[CHOOSE i \in 1..Len(item.keys) : item.keys[i] = key]
    ELSE JUndef

\* a string iterated by the spread operator: its characters
RECURSIVE strChars(_)
strChars(s) == IF s = "" THEN <<>> ELSE <<JStr(Head(s))>> \o strChars(Tail(s))

----------------------------------------------------------------------------
(* categorize: the Geometric Domain Mapper *)

Domains == <<"SUBSTANCE", "ORGANISM", "ALGORITHM", "QUANTITY", "MECHANISM",
             "IMPERATIVE", "ENTROPY", "MEANING">>

kwImperative == <<"LAW", "RULE", "AXIOM", "STANDARD", "PRINCIPLE", "REQ", "PROTOCOL", "COMMAND">>
kwSubstance  == <<"ELEMENT", "PERIODIC", "METAL", "GAS", "LIQUID", "MATTER", "ATOM",
                  "MOLECULE", "CHEMICAL", "MINERAL", "PLASTIC", "GRAPHENE">>
kwOrganism   == <<"BIO", "LIFE", "CELL", "DNA", "ORGANIC", "ANIMAL", "PLANT", "FUNGUS",
                  "HEALTH", "NEURO", "BODY", "CANCER">>
kwAlgorithm  == <<"ALGO", "CODE", "LOGIC", "COMPUTE", "DATA", "PROCESS", "FUNCTION",
                  "NETWORK", "SYSTEM", "INFO", "FRACTAL">>
kwQuantity   == <<"NUM", "CONST", "UNIT", "MEASURE", "VALUE", "RATIO", "METRIC",
                  "COORDINATE", "DIMENSION", "GEOMETRY", "SHAPE">>
kwMechanism  == <<"MECH", "PHYS", "ENERGY", "FORCE", "MOTION", "WAVE", "PARTICLE",
                  "REACT", "KINETIC">>
kwEntropy    == <<"CHAOS", "VOID", "NULL", "ERROR", "DECAY", "NOISE", "UNKNOWN", "RANDOM">>
kwMeaning    == <<"WORD", "TERM", "SEMANTIC", "CONCEPT", "IDEA", "SYMBOL", "DEFINITION", "LANG">>

\* a variant of rule 1 that lets the first element that is a domain name win
explicitTag_FirstElement(combined) ==
    IF \E i \in 1..Len(combined) : arrIncludes(Domains, combined[i])
    THEN combined[CHOOSE i \in 1..Len(combined) :
                     /\ arrIncludes(Domains, combined[i])
                     /\ \A j \in 1..(i - 1) : ~arrIncludes(Domains, combined[j])]
    ELSE ""

\* a variant of rule 1 that lets the last explicit tag of the if-chain win
explicitTag_LastInOrder(combined) ==
    IF \E d \in 1..Len(Domains) : arrIncludes(combined, Domains[d])
    THEN Domains[CHOOSE d \in 1..Len(Domains) :
                    /\ arrIncludes(combined, Domains[d])
                    /\ \A e \in (d + 1)..Len(Domains) : ~arrIncludes(combined, Domains[e])]
    ELSE ""

\* rule 1: the first explicit geometric tag, in the order of the if-chain; "" if none
explicitTag(combined) ==
    IF \E d \in 1..Len(Domains) : arrIncludes(combined, Domains[d])
    THEN Domains[CHOOSE d \in 1..Len(Domains) :
                    /\ arrIncludes(combined, Domains[d])
                    /\ \A e \in 1..(d - 1) : ~arrIncludes(combined, Domains[e])]
    ELSE ""

isMeaningSubject(s)   == s = "ENGLISH" \/ s = "VOCABULARY" \/ includes(s, "VOCAB")
isMechanismSubject(s) == s = "PHYSICS" \/ s = "EARTH" \/ includes(s, "EARTH_SCIENCE")
isQuantitySubject(s)  == s = "MATH" \/ s = "MATHEMATICS"
isSubstanceSubject(s) == s = "CHEMISTRY"
isOrganismSubject(s)  == s = "PSYCHOLOGY" \/ s = "BIOLOGY"
isAlgorithmSubject(s) == s = "PYTHON" \/ s = "CS" \/ s = "COMPUTER SCIENCE"

\* a variant of rule 2 that tests the MATH row before the PHYSICS row
subjectDomain_QuantityFirst(combined) ==
    IF (\E i \in 1..Len(combined) : isMeaningSubject(combined[i])) THEN "MEANING"
    ELSE IF (\E i \in 1..Len(combined) : isQuantitySubject(combined[i])) THEN "QUANTITY"
    ELSE IF (\E i \in 1..Len(combined) : isMechanismSubject(combined[i])) THEN "MECHANISM"
    ELSE IF (\E i \in 1..Len(combined) : isSubstanceSubject(combined[i])) THEN "SUBSTANCE"
    ELSE IF (\E i \in 1..Len(combined) : isOrganismSubject(combined[i])) THEN "ORGANISM"
    ELSE IF (\E i \in 1..Len(combined) : isAlgorithmSubject(combined[i])) THEN "ALGORITHM"
    ELSE ""

\* rule 2: specific subject mapping; "" if none
subjectDomain(combined) ==
    IF (\E i \in 1..Len(combined) : isMeaningSubject(combined[i])) THEN "MEANING"
    ELSE IF (\E i \in 1..Len(combined) : isMechanismSubject(combined[i])) THEN "MECHANISM"
    ELSE IF (\E i \in 1..Len(combined) : isQuantitySubject(combined[i])) THEN "QUANTITY"
    ELSE IF (\E i \in 1..Len(combined) : isSubstanceSubject(combined[i])) THEN "SUBSTANCE"
    ELSE IF (\E i \in 1..Len(combined) : isOrganismSubject(combined[i])) THEN "ORGANISM"
    ELSE IF (\E i \in 1..Len(combined) : isAlgorithmSubject(combined[i])) THEN "ALGORITHM"
    ELSE ""

isImperativeWord(s) == includesAny(s, kwImperative)
isSubstanceWord(s)  == includesAny(s, kwSubstance) \/ startsWith(s, "MAT_") \/ startsWith(s, "ELEM_")
isOrganismWord(s)   == includesAny(s, kwOrganism)
isAlgorithmWord(s)  == includesAny(s, kwAlgorithm)
isQuantityWord(s)   == includesAny(s, kwQuantity) \/ startsWith(s, "BIN_")
isMechanismWord(s)  == includesAny(s, kwMechanism)
isEntropyWord(s)    == includesAny(s, kwEntropy)
isMeaningWord(s)    == includesAny(s, kwMeaning)

\* rule 3: broad keyword inference; "" if none
\* a variant of rule 3 that tests the SUBSTANCE words before the IMPERATIVE ones
patternDomain_SubstanceFirst(combined) ==
    IF (\E i \in 1..Len(combined) : isSubstanceWord(combined[i])) THEN "SUBSTANCE"
    ELSE IF (\E i \in 1..Len(combined) : isImperativeWord(combined[i])) THEN "IMPERATIVE"
    ELSE IF (\E i \in 1..Len(combined) : isOrganismWord(combined[i])) THEN "ORGANISM"
    ELSE IF (\E i \in 1..Len(combined) : isAlgorithmWord(combined[i])) THEN "ALGORITHM"
    ELSE IF (\E i \in 1..Len(combined) : isQuantityWord(combined[i])) THEN "QUANTITY"
    ELSE IF (\E i \in 1..Len(combined) : isMechanismWord(combined[i])) THEN "MECHANISM"
    ELSE IF (\E i \in 1..Len(combined) : isEntropyWord(combined[i])) THEN "ENTROPY"
    ELSE IF (\E i \in 1..Len(combined) : isMeaningWord(combined[i])) THEN "MEANING"
    ELSE ""

patternDomain(combined) ==
    IF (\E i \in 1..Len(combined) : isImperativeWord(combined[i])) THEN "IMPERATIVE"
    ELSE IF (\E i \in 1..Len(combined) : isSubstanceWord(combined[i])) THEN "SUBSTANCE"
    ELSE IF (\E i \in 1..Len(combined) : isOrganismWord(combined[i])) THEN "ORGANISM"
    ELSE IF (\E i \in 1..Len(combined) : isAlgorithmWord(combined[i])) THEN "ALGORITHM"
    ELSE IF (\E i \in 1..Len(combined) : isQuantityWord(combined[i])) THEN "QUANTITY"
    ELSE IF (\E i \in 1..Len(combined) : isMechanismWord(combined[i])) THEN "MECHANISM"
    ELSE IF (\E i \in 1..Len(combined) : isEntropyWord(combined[i])) THEN "ENTROPY"
    ELSE IF (\E i \in 1..Len(combined) : isMeaningWord(combined[i])) THEN "MEANING"
    ELSE ""

\* [...tags, name].map(s => s.toUpperCase().trim()) on strings
RECURSIVE normalizeAll(_)
normalizeAll(strs) ==
    IF strs = <<>> THEN <<>>
    ELSE <<trim(toUpperCase(Head(strs)))>> \o normalizeAll(Tail(strs))

\* a variant of the if-chain that tests the broad words before the subjects
cascade_BroadFirst(upperId, combined) ==
    IF startsWith(upperId, "LAW_") THEN "IMPERATIVE"
    ELSE IF explicitTag(combined) /= "" THEN explicitTag(combined)
    ELSE IF patternDomain(combined) /= "" THEN patternDomain(combined)
    ELSE IF subjectDomain(combined) /= "" THEN subjectDomain(combined)
    ELSE "UNCATEGORIZED"

\* a variant of the if-chain that tests the explicit tags before the id
cascade_TagsFirst(upperId, combined) ==
    IF explicitTag(combined) /= "" THEN explicitTag(combined)
    ELSE IF startsWith(upperId, "LAW_") THEN "IMPERATIVE"
    ELSE IF subjectDomain(combined) /= "" THEN subjectDomain(combined)
    ELSE IF patternDomain(combined) /= "" THEN patternDomain(combined)
    ELSE "UNCATEGORIZED"

\* a variant of the if-chain without the final return 'UNCATEGORIZED'
cascade_NoDefault(upperId, combined) ==
    IF startsWith(upperId, "LAW_") THEN "IMPERATIVE"
    ELSE IF explicitTag(combined) /= "" THEN explicitTag(combined)
    ELSE IF subjectDomain(combined) /= "" THEN subjectDomain(combined)
    ELSE patternDomain(combined)

\* the if-chain of categorize on the normalized id and the normalized
\* [...tags, name]
cascade(upperId, combined) ==
    IF startsWith(upperId, "LAW_") THEN "IMPERATIVE"
    ELSE IF explicitTag(combined) /= "" THEN explicitTag(combined)
    ELSE IF subjectDomain(combined) /= "" THEN subjectDomain(combined)
    ELSE IF patternDomain(combined) /= "" THEN patternDomain(combined)
    ELSE "UNCATEGORIZED"

\* the body of categorize once its arguments are known to be strings
categorizeStrings(id, name, tags) ==
    cascade(trim(toUpperCase(id)), normalizeAll(tags \o <<name>>))

\* [...tags]: an array or a string is iterable, anything else throws
Spreadable(tags) == tags.t \in {"array", "string"}
Spread(tags) == IF tags.t = "array" THEN tags.items ELSE strChars(tags.s)

RECURSIVE strsOf(_)
strsOf(vals) == IF vals = <<>> THEN <<>> ELSE <<Head(vals).s>> \o strsOf(Tail(vals))

allStrings(vals) == \A i \in 1..Len(vals) : vals[i].t = "string"

\* categorize(id, name, tags) on JavaScript values: id.toUpperCase and
\* s.toUpperCase exist only on strings, so any other value raises a TypeError
categorize(id, name, tags) ==
    IF id.t = "string" /\ name.t = "string" /\ Spreadable(tags) /\ allStrings(Spread(tags))
    THEN [threw |-> FALSE, label |-> categorizeStrings(id.s, name.s, strsOf(Spread(tags)))]
    ELSE [threw |-> TRUE, label |-> ""]

----------------------------------------------------------------------------
(* JSON.parse on the fragment: objects, arrays, strings without escapes,   *)
(* integers, true, false, null, and JSON whitespace                        *)

Digits == {"0", "1", "2", "3", "4", "5", "6", "7", "8", "9"}

DigitVal == [d \in Digits |->
    CASE d = "0" -> 0 [] d = "1" -> 1 [] d = "2" -> 2 [] d = "3" -> 3 [] d = "4" -> 4
      [] d = "5" -> 5 [] d = "6" -> 6 [] d = "7" -> 7 [] d = "8" -> 8 [] d = "9" -> 9]

\* the first position at or after i that holds no white space
RECURSIVE skipWs(_, _)
skipWs(s, i) ==
    IF i <= Len(s) /\ CharAt(s, i) \in WhiteSpace THEN skipWs(s, i + 1) ELSE i

ParseFail == [ok |-> FALSE, v |-> JUndef, next |-> 0]
ParseOk(v, next) == [ok |-> TRUE, v |-> v, next |-> next]

\* index of the closing quote of the string opened before position i, 0 if the
\* string is unterminated or holds a control character or a backslash
RECURSIVE closingQuote(_, _)
closingQuote(s, i) ==
    IF i > Len(s) THEN 0
    ELSE IF CharAt(s, i) = "\"" THEN i
    ELSE IF CharAt(s, i) \in {"\n", "\r", "\t", "\\"} THEN 0
    ELSE closingQuote(s, i + 1)

\* s[i] is the opening quote
parseString(s, i) ==
    LET j == closingQuote(s, i + 1)
    IN  IF j = 0 THEN ParseFail ELSE ParseOk(JStr(SubSeq(s, i + 1, j - 1)), j + 1)

\* the first position at or after i that holds no digit
RECURSIVE digitsEnd(_, _)
digitsEnd(s, i) ==
    IF i <= Len(s) /\ CharAt(s, i) \in Digits THEN digitsEnd(s, i + 1) ELSE i

RECURSIVE digitsValue(_, _)
digitsValue(s, acc) ==
    IF s = "" THEN acc ELSE digitsValue(Tail(s), 10 * acc + DigitVal[Head(s)])

\* -?(0|[1-9][0-9]*) ; a fraction or an exponent is outside the fragment
parseNumber(s, i) ==
    LET neg   == CharAt(s, i) = "-"
        start == IF neg THEN i + 1 ELSE i
        end   == digitsEnd(s, start)
    IN  IF end = start THEN ParseFail
        ELSE IF CharAt(s, start) = "0" /\ end > start + 1 THEN ParseFail
        ELSE IF end <= Len(s) /\ CharAt(s, end) \in {".", "e", "E"} THEN ParseFail
        ELSE LET mag == digitsValue(SubSeq(s, start, end - 1), 0)
             IN  ParseOk(JNum(IF neg THEN 0 - mag ELSE mag), end)

\* property definition while parsing: a repeated key keeps its first place
\* and takes the last value
setProp(obj, key, val) ==
    IF \E i \in 1..Len(obj.keys) : obj.keys[i] = key
    THEN LET i == CHOOSE i \in 1..Len(obj.keys) : obj.keys[i] = key
         IN  JObj(obj.keys, [obj.items EXCEPT ![i] = val])
    ELSE JObj(Append(obj.keys, key), Append(obj.items, val))

RECURSIVE parseValue(_, _)
RECURSIVE parseElements(_, _, _)
RECURSIVE parseMembers(_, _, _)

\* after an element r of an array: a comma and more elements, or the bracket
afterElement(s, acc, r, j) ==
    IF ~r.ok THEN ParseFail
    ELSE IF startsWithAt(s, j, ",") THEN parseElements(s, skipWs(s, j + 1), Append(acc, r.v))
    ELSE IF startsWithAt(s, j, "]") THEN ParseOk(JArr(Append(acc, r.v)), j + 1)
    ELSE ParseFail

\* after a member's value r: a comma and more members, or the brace
afterMember(s, obj, key, r, j) ==
    IF ~r.ok THEN ParseFail
    ELSE IF startsWithAt(s, j, ",") THEN parseMembers(s, skipWs(s, j + 1), setProp(obj, key, r.v))
    ELSE IF startsWithAt(s, j, "}") THEN ParseOk(setProp(obj, key, r.v), j + 1)
    ELSE ParseFail

afterElementValue(s, acc, r) == afterElement(s, acc, r, skipWs(s, r.next))

afterMemberValue(s, obj, key, r) == afterMember(s, obj, key, r, skipWs(s, r.next))

\* after a member's key k: the colon and the value
afterKey(s, obj, k, c) ==
    IF ~k.ok \/ ~startsWithAt(s, c, ":") THEN ParseFail
    ELSE afterMemberValue(s, obj, k.v.s, parseValue(s, skipWs(s, c + 1)))

afterKeyString(s, obj, k) == afterKey(s, obj, k, skipWs(s, k.next))

\* i is the first character of the value (whitespace already skipped)
parseValue(s, i) ==
    IF i > Len(s) THEN ParseFail
    ELSE CASE CharAt(s, i) = "{" ->
                IF startsWithAt(s, skipWs(s, i + 1), "}")
                THEN ParseOk(JObj(<<>>, <<>>), skipWs(s, i + 1) + 1)
                ELSE parseMembers(s, skipWs(s, i + 1), JObj(<<>>, <<>>))
           [] CharAt(s, i) = "[" ->
                IF startsWithAt(s, skipWs(s, i + 1), "]")
                THEN ParseOk(JArr(<<>>), skipWs(s, i + 1) + 1)
                ELSE parseElements(s, skipWs(s, i + 1), <<>>)
           [] CharAt(s, i) = "\"" -> parseString(s, i)
           [] CharAt(s, i) = "-" \/ CharAt(s, i) \in Digits -> parseNumber(s, i)
           [] startsWithAt(s, i, "true")  -> ParseOk(JBool(TRUE), i + 4)
           [] startsWithAt(s, i, "false") -> ParseOk(JBool(FALSE), i + 5)
           [] startsWithAt(s, i, "null")  -> ParseOk(JNull, i + 4)
           [] OTHER -> ParseFail

\* i is the first character of the next element; acc holds the elements so far
parseElements(s, i, acc) == afterElementValue(s, acc, parseValue(s, i))

\* i is the first character of the next member's key; obj holds the members so far
parseMembers(s, i, obj) ==
    IF ~startsWithAt(s, i, "\"") THEN ParseFail
    ELSE afterKeyString(s, obj, parseString(s, i))

\* the whole text must be one value, white space apart
wholeText(text, r) ==
    IF r.ok /\ skipWs(text, r.next) > Len(text)
    THEN [threw |-> FALSE, v |-> r.v]
    ELSE [threw |-> TRUE, v |-> JUndef]

\* JSON.parse(text): the value, or a SyntaxError
JSONparse(text) == wholeText(text, parseValue(text, skipWs(text, 1)))

----------------------------------------------------------------------------
(* Object.values: own enumerable properties, integer-like keys first in    *)
(* ascending numeric order, then the other keys in creation order          *)

RECURSIVE allDigits(_)
allDigits(s) == s = "" \/ (Head(s) \in Digits /\ allDigits(Tail(s)))

\* a canonical array index: "0" or a digit string without a leading zero
isArrayIndex(k) == k /= "" /\ allDigits(k) /\ (k = "0" \/ Head(k) /= "0")

RECURSIVE sortedByIndex(_, _)
sortedByIndex(obj, idxs) ==
    IF idxs = {} THEN <<>>
    ELSE LET m == CHOOSE i \in idxs :
                    \A j \in idxs : digitsValue(obj.keys[i], 0) <= digitsValue(obj.keys[j], 0)
         IN  <<m>> \o sortedByIndex(obj, idxs \ {m})

RECURSIVE inCreationOrder(_, _)
inCreationOrder(obj, i) ==
    IF i > Len(obj.keys) THEN <<>>
    ELSE (IF isArrayIndex(obj.keys[i]) THEN <<>> ELSE <<i>>) \o inCreationOrder(obj, i + 1)

\* the positions of obj's properties in enumeration order
ownKeyOrder(obj) ==
    sortedByIndex(obj, {i \in 1..Len(obj.keys) : isArrayIndex(obj.keys[i])})
        \o inCreationOrder(obj, 1)

\* Object.values(json) for a non-array json
objectValues(json) ==
    CASE json.t \in {"null", "undefined"} -> [threw |-> TRUE, list |-> <<>>]
      [] json.t = "string" -> [threw |-> FALSE, list |-> strChars(json.s)]
      [] json.t = "object" ->
            [threw |-> FALSE,
             list |-> [i \in 1..Len(json.keys) |-> json.items[ownKeyOrder(json)[i]]]]
      [] OTHER -> [threw |-> FALSE, list |-> <<>>]

----------------------------------------------------------------------------
(* The parsedSystem memo *)

RawJsonObject   == "JSON Object"
RawMarkdownLine == "Markdown Line"
RawJsonLine     == "JSON Line"

\* the object literal pushed by entries.push for the fields of a JSON item
pushedEntry(id, name, tags, fingerprint, nrci, raw, cat) ==
    IF cat.threw THEN [threw |-> TRUE, entry |-> <<>>]
    ELSE [threw |-> FALSE,
          entry |-> [id |-> id, name |-> name, tags |-> tags,
                     fingerprint |-> fingerprint, nrci |-> nrci,
                     raw |-> raw, category |-> cat.label]]

entryOfFields(id, name, tags, fingerprint, nrci, raw) ==
    pushedEntry(id, name, tags, fingerprint, nrci, raw, categorize(id, name, tags))

\* the entry of a JSON item: reading a property of null or undefined throws,
\* and so does categorize on ill-typed fields
entryOfItem(item, raw) ==
    IF item.t \in {"null", "undefined"} THEN [threw |-> TRUE, entry |-> <<>>]
    ELSE entryOfFields(OrElse(GetProp(item, "ubp_id"), JStr("UNKNOWN")),
                       OrElse(GetProp(item, "name"), JStr("Untitled")),
                       OrElse(GetProp(item, "tags"), JArr(<<>>)),
                       GetProp(item, "fingerprint"), GetProp(item, "nrci"), raw)

\* list.forEach(item => { entries.push(...); validJsonCount++ }): entries is
\* filled in place, so the pushes made before a throw stay
RECURSIVE forEachItem(_, _)
afterItem(rest, acc, e) ==
    IF e.threw THEN [threw |-> TRUE, entries |-> acc]
    ELSE forEachItem(rest, Append(acc, e.entry))

forEachItem(list, acc) ==
    IF list = <<>> THEN [threw |-> FALSE, entries |-> acc]
    ELSE afterItem(Tail(list), acc, entryOfItem(Head(list), RawJsonObject))

\* a variant in which entries is not a fresh list of each call but keeps the
\* entries of the call before
forEachOf_Accumulating(json, vals) ==
    IF json.t = "array" THEN forEachItem(json.items, entries)
    ELSE IF vals.threw THEN [threw |-> TRUE, entries |-> entries]
    ELSE forEachItem(vals.list, entries)

\* Array.isArray(json) ? json : Object.values(json), then forEach
forEachOf(json, vals) ==
    IF json.t = "array" THEN forEachItem(json.items, <<>>)
    ELSE IF vals.threw THEN [threw |-> TRUE, entries |-> <<>>]
    ELSE forEachItem(vals.list, <<>>)

afterParse(p) ==
    IF p.threw THEN [threw |-> TRUE, entries |-> <<>>]
    ELSE forEachOf(p.v, objectValues(p.v))

\* the try block: JSON.parse(systemKb || "[]"), the list, forEach
structuredPath(text) == afterParse(JSONparse(IF text = "" THEN "[]" ELSE text))

\* "." of a regular expression matches anything but a line terminator
noLineTerminator(s) == ~includes(s, "\n") /\ ~includes(s, "\r")

\* where a greedy (.*) started at i stops: the first line terminator, or the end
dotStar(s, i) ==
    LET terms == {j \in i..Len(s) : CharAt(s, j) \in {"\n", "\r"}}
    IN  IF terms = {} THEN (IF i > Len(s) THEN i ELSE Len(s) + 1) ELSE Least(terms)

\* line.match(/^\- \[(.*?)\] \*\*(.*?)\*\*: (.*)/): the lazy groups take the
\* leftmost "] **" and then the leftmost "**: " that let the whole pattern match
idEnds(line, j) ==
    {k \in (j + 4)..Len(line) :
        /\ startsWithAt(line, k, "**: ")
        /\ noLineTerminator(SubSeq(line, j + 4, k - 1))}

markerEnds(line) ==
    {j \in 4..Len(line) :
        /\ startsWithAt(line, j, "] **")
        /\ noLineTerminator(SubSeq(line, 4, j - 1))
        /\ idEnds(line, j) /= {}}

matchGroups(line, j, k) ==
    [ok |-> TRUE,
     marker |-> SubSeq(line, 4, j - 1),
     id |-> SubSeq(line, j + 4, k - 1),
     content |-> SubSeq(line, k + 4, dotStar(line, k + 4) - 1)]

matchFrom(line, j) == matchGroups(line, j, Least(idEnds(line, j)))

bulletMatch(line) ==
    IF ~startsWith(line, "- [") \/ markerEnds(line) = {}
    THEN [ok |-> FALSE, marker |-> "", id |-> "", content |-> ""]
    ELSE matchFrom(line, Least(markerEnds(line)))

\* content.match(/Tags: (.*?)$/): the leftmost "Tags: " whose rest of the
\* string holds no line terminator; group 1 is that rest
tagMatch(content) ==
    LET ps == {p \in 1..Len(content) :
                  /\ startsWithAt(content, p, "Tags: ")
                  /\ noLineTerminator(SubSeq(content, p + 6, Len(content)))}
    IN  IF ps = {} THEN [ok |-> FALSE, rest |-> ""]
        ELSE [ok |-> TRUE, rest |-> SubSeq(content, Least(ps) + 6, Len(content))]

RECURSIVE jstrs(_)
jstrs(strs) == IF strs = <<>> THEN <<>> ELSE <<JStr(Head(strs))>> \o jstrs(Tail(strs))

RECURSIVE trimAll(_)
trimAll(strs) == IF strs = <<>> THEN <<>> ELSE <<trim(Head(strs))>> \o trimAll(Tail(strs))

\* a variant of the tag list without .map(t => t.trim())
tagsOf_Untrimmed(tm) == IF tm.ok THEN JArr(jstrs(split(tm.rest, ","))) ELSE JArr(<<>>)

tagsOf(tm) == IF tm.ok THEN JArr(jstrs(trimAll(split(tm.rest, ",")))) ELSE JArr(<<>>)

\* the entry pushed for a line that matched the bullet pattern
markdownEntry(m) ==
    entryOfFields(JStr(m.id), JStr(split(m.content, "\n")[1]), tagsOf(tagMatch(m.content)),
                  JUndef, JUndef, RawMarkdownLine)

\* s.replace(/,$/, '')
stripTrailingComma(s) ==
    IF s /= "" /\ CharAt(s, Len(s)) = "," THEN SubSeq(s, 1, Len(s) - 1) ELSE s

\* a variant of the inner try without its catch
swallow_Rethrow(e) ==
    IF e.threw THEN [threw |-> TRUE, pushed |-> FALSE, entry |-> <<>>]
    ELSE [threw |-> FALSE, pushed |-> TRUE, entry |-> e.entry]

\* catch(err) {} of the inner try: whatever was thrown inside is swallowed
swallow(e) ==
    IF e.threw THEN [threw |-> FALSE, pushed |-> FALSE, entry |-> <<>>]
    ELSE [threw |-> FALSE, pushed |-> TRUE, entry |-> e.entry]

itemOfLine(p) == IF p.threw THEN [threw |-> TRUE, entry |-> <<>>] ELSE entryOfItem(p.v, RawJsonLine)

\* the inner try/catch of a line starting with "{": JSON.parse of the trimmed
\* line without its trailing comma, and the push
jsonLineEntry(line) == swallow(itemOfLine(JSONparse(stripTrailingComma(trim(line)))))

\* the state of the line scan after a bullet line
afterMarkdown(st, e) ==
    IF e.threw THEN [st EXCEPT !.threw = TRUE]
    ELSE [st EXCEPT !.entries = Append(@, e.entry), !.markdownCount = @ + 1]

\* the state of the line scan after a line starting with "{"
afterJsonLine(st, e) ==
    IF e.threw THEN [st EXCEPT !.threw = TRUE]
    ELSE IF e.pushed
    THEN [st EXCEPT !.entries = Append(@, e.entry), !.validJsonCount = @ + 1]
    ELSE st

\* a variant of the callback that tries JSON.parse on every line that is no bullet
scanLine_AnyLine(st, line, m) ==
    IF m.ok THEN afterMarkdown(st, markdownEntry(m))
    ELSE afterJsonLine(st, jsonLineEntry(line))

\* the callback of lines.forEach for one line
scanLine(st, line, m) ==
    IF m.ok THEN afterMarkdown(st, markdownEntry(m))
    ELSE IF startsWith(trim(line), "{") THEN afterJsonLine(st, jsonLineEntry(line))
    ELSE st

\* lines.forEach(line => ...) of the catch block; st is
\* [threw, entries, validJsonCount, markdownCount]
RECURSIVE forEachLine(_, _)
forEachLine(lines, st) ==
    IF lines = <<>> \/ st.threw THEN st
    ELSE forEachLine(Tail(lines), scanLine(st, Head(lines), bulletMatch(Head(lines))))

scanResult(f) ==
    [threw |-> f.threw, entries |-> f.entries, validJsonCount |-> f.validJsonCount,
     markdownCount |-> f.markdownCount, lineScan |-> TRUE]

\* catch (e) { ... }: the line scan goes on from what the try block pushed
fallbackPath(text, pushed) ==
    scanResult(forEachLine(split(text, "\n"),
                           [threw |-> FALSE, entries |-> pushed,
                            validJsonCount |-> Len(pushed), markdownCount |-> 0]))

tryCatch(text, s) ==
    IF ~s.threw
    THEN [threw |-> FALSE, entries |-> s.entries, validJsonCount |-> Len(s.entries),
          markdownCount |-> 0, lineScan |-> FALSE]
    ELSE fallbackPath(text, s.entries)

\* try { structured } catch (e) { line scan }: the parse stage of the memo
parseStage(text) == tryCatch(text, structuredPath(text))

----------------------------------------------------------------------------
(* Aggregate stats *)

DigitChars == <<"0", "1", "2", "3", "4", "5", "6", "7", "8", "9">>

\* String(n) for a non-negative integer
RECURSIVE intToString(_)
intToString(n) ==
    IF n < 10 THEN DigitChars[n + 1]
    ELSE intToString(n \div 10) \o DigitChars[(n % 10) + 1]

\* ((count / total) * 100).toFixed(1) + '%' : the nearest multiple of 0.1, the
\* larger one on a tie
fixed1(tenths) == intToString(tenths \div 10) \o "." \o intToString(tenths % 10)

\* a variant that cuts the percentage off after the first decimal
percentOf_Truncated(count, total) == fixed1((1000 * count) \div total) \o "%"

percentOf(count, total) == fixed1((2000 * count + total) \div (2 * total)) \o "%"

descriptionOf(code) ==
    CASE code = "SUBSTANCE"  -> "Stable Matter & Elements (Bit 12=1)"
      [] code = "ORGANISM"   -> "Biological & Complex Systems"
      [] code = "ALGORITHM"  -> "Logic, Code & Information"
      [] code = "QUANTITY"   -> "Pure Magnitude & Constants (Bit 12=0)"
      [] code = "MECHANISM"  -> "Physical Interactions & Reactions"
      [] code = "IMPERATIVE" -> "System Laws & Constraints"
      [] code = "ENTROPY"    -> "Chaos, Void & Dissolution"
      [] code = "MEANING"    -> "Semantic & Linguistic Value"
      [] OTHER               -> "Unknown Domain"

\* a variant that makes a key for every entry, seen before or not
statsKeys_EveryEntry(es, acc) == acc \o [i \in 1..Len(es) |-> es[i].category]

\* the keys of statsMap in creation order: each category at its first entry
RECURSIVE statsKeys(_, _)
statsKeys(es, acc) ==
    IF es = <<>> THEN acc
    ELSE statsKeys(Tail(es),
                   IF arrIncludes(acc, Head(es).category) THEN acc
                   ELSE Append(acc, Head(es).category))

statsCount(es, code) == Cardinality({i \in 1..Len(es) : es[i].category = code})

\* .sort((a, b) => b.count - a.count): stable, descending by count
RECURSIVE insertByCount(_, _)
insertByCount(sorted, x) ==
    IF sorted = <<>> THEN <<x>>
    ELSE IF Head(sorted).count >= x.count THEN <<Head(sorted)>> \o insertByCount(Tail(sorted), x)
    ELSE <<x>> \o sorted

\* a variant that leaves the statistics in the order of statsMap
sortByCount_Unsorted(stats, acc) == acc \o stats

RECURSIVE sortByCount(_, _)
sortByCount(stats, acc) ==
    IF stats = <<>> THEN acc
    ELSE sortByCount(Tail(stats), insertByCount(acc, Head(stats)))

statOf(code, count, total) ==
    [code |-> code, count |-> count, description |-> descriptionOf(code),
     percent |-> IF total > 0 THEN percentOf(count, total) ELSE "0%"]

statsOfKeys(es, keys) ==
    sortByCount([i \in 1..Len(keys) |-> statOf(keys[i], statsCount(es, keys[i]), Len(es))], <<>>)

aggregateStats(es) == statsOfKeys(es, statsKeys(es, <<>>))

----------------------------------------------------------------------------
(* Inputs *)

\* one-line knowledge-base documents, as fetched at startup
DocPool == {
    "",
    "null",
    "7",
    "\"ab\"",
    "not json and no bullets",
    "[{\"ubp_id\":\"LAW_01\",\"name\":\"Test\",\"tags\":[\"SUBSTANCE\"]}]",
    "[{\"ubp_id\":\"UBP-1\",\"name\":\"Test\",\"tags\":[\"CHEMISTRY\"]}]",
    "[{\"ubp_id\":\"A1\",\"name\":\"Alpha\",\"fingerprint\":\"f0\",\"nrci\":1},{\"tags\":[\"lab\"]}]",
    "{\"k1\":{\"ubp_id\":\"UBP-1\",\"name\":\"Test\",\"tags\":[\"CHEMISTRY\"]},\"k2\":{\"name\":\"void\"}}",
    "{\"2\":{\"ubp_id\":\"P2\"},\"1\":{\"ubp_id\":\"P1\"}}",
    "[{\"ubp_id\":\"\",\"name\":\"\",\"tags\":[]}]",
    "[{\"ubp_id\":\"A1\"},null]",
    "[{\"ubp_id\":\"A1\"},{\"ubp_id\":5}]",
    "[{\"name\":7},{\"tags\":3},{\"tags\":[1]}]",
    "[{\"tags\":\"ab\"},3,\"x\",[]]",
    "[{\"ubp_id\":\"A1\",\"name\":\"Alpha\"}," }

\* s.join(sep) of a sequence of strings
RECURSIVE join(_, _)
join(strs, sep) ==
    IF strs = <<>> THEN ""
    ELSE IF Len(strs) = 1 THEN strs[1]
    ELSE strs[1] \o sep \o join(Tail(strs), sep)

\* the parts of bullet lines: marker, id, text, the items written after
\* "Tags: " (no Tags clause when there are none), and the tags they denote
BulletPool == {
    [marker |-> "x", id |-> "ID1", text |-> "Some description.",
     items |-> <<"chemistry", " lab">>, tags |-> <<"chemistry", "lab">>],
    [marker |-> " ", id |-> "law_2", text |-> "Ohm",
     items |-> <<" chemistry", "lab ">>, tags |-> <<"chemistry", "lab">>],
    [marker |-> "x", id |-> "ID4", text |-> "vocab list",
     items |-> <<"chemistry", " lab">>, tags |-> <<"chemistry", "lab">>],
    [marker |-> "x", id |-> "ID5", text |-> "Tags: old",
     items |-> <<"chemistry", " lab">>, tags |-> <<"chemistry", "lab">>],
    [marker |-> "x", id |-> "I**: D6", text |-> "note",
     items |-> <<"lab ">>, tags |-> <<"lab">>],
    [marker |-> "x", id |-> "ID3", text |-> "plain note",
     items |-> <<>>, tags |-> <<>>] }

\* the line "- [<marker>] **<id>**: <text> Tags: t1,t2,..."
bulletLine(c) ==
    "- [" \o c.marker \o "] **" \o c.id \o "**: " \o c.text
        \o (IF c.items = <<>> THEN "" ELSE " Tags: " \o join(c.items, ","))

\* lines typed into the editor
LinePool ==
    {bulletLine(c) : c \in BulletPool} \cup {
    "{\"ubp_id\":\"B2\",\"name\":\"gas law\",\"tags\":[\"x\"]},",
    "{\"ubp_id\":5}",
    "{bad",
    "null]" }

\* arguments of categorize
IdPool == {"UBP-1", "LAW_01", " law_7"}

NamePool == {"Test", "English", "vocabulary", "vocab-words", "Earth", "earth_science",
             "MATH", "mathematics", "psychology", "BIOLOGY", "python", "CS",
             "Computer Science", "gas law"}

TagPool == {"SUBSTANCE", " organism", "Algorithm", "QUANTITY", "MECHANISM", "imperative ",
            "ENTROPY", "MEANING", "PHYSICS", "CHEMISTRY", "lab"}

RECURSIVE TagLists(_)
TagLists(n) ==
    IF n = 0 THEN {<<>>}
    ELSE TagLists(n - 1) \cup
         {Append(ts, t) : ts \in {x \in TagLists(n - 1) : Len(x) = n - 1}, t \in TagPool}

\* JSON.stringify of a string without quotes or backslashes
quoted(str) == "\"" \o str \o "\""

RECURSIVE joinQuoted(_)
joinQuoted(strs) ==
    IF strs = <<>> THEN ""
    ELSE IF Len(strs) = 1 THEN quoted(strs[1])
    ELSE quoted(strs[1]) \o "," \o joinQuoted(Tail(strs))

\* the knowledge-base document holding one structured entry with these fields
entryDoc(id, name, tags) ==
    "[{\"ubp_id\":" \o quoted(id) \o ",\"name\":" \o quoted(name)
        \o ",\"tags\":[" \o joinQuoted(tags) \o "]}]"

----------------------------------------------------------------------------
(* The App's systemKb state and the MemoryStatus render *)

InitKb ==
    /\ systemKb = "[]"
    /\ resourcesLoaded = FALSE
    /\ entries = <<>>
    /\ validJsonCount = 0
    /\ markdownCount = 0
    /\ categoryStats = <<>>
    /\ escaped = FALSE
    /\ lineScanRan = FALSE

InitCat ==
    /\ cId = ""
    /\ cName = ""
    /\ cTags = <<>>
    /\ cLabel = ""

\* INITIAL_BELIEFS_KB and the memo's result on it
InitBeliefs ==
    /\ beliefsKb = "[]"
    /\ parsedBeliefs = <<>>

\* INITIAL_HASH_MEMORY_KB and the memo's result on it
InitHash ==
    /\ hashMemoryKb = "[]"
    /\ parsedHash = 0

\* the first line of INITIAL_STUDY_KB
InitialStudyKb == "# UBP Study Knowledge Base"

\* the message the chat starts with
WelcomeMessage ==
    JObj(<<"id", "role", "content", "timestamp">>,
         <<JStr("welcome"), JStr("model"), JStr("Welcome to UBP Core Studio"), JNum(0)>>)

\* no study file has been written yet
NoStudy == [saved |-> FALSE, data |-> JUndef]

InitStudy ==
    /\ studyKb = InitialStudyKb
    /\ files = <<>>
    /\ chatMessages = <<WelcomeMessage>>
    /\ isPyodideReady = FALSE
    /\ snapshot = NoStudy
    /\ loadOutcome = "none"
    /\ isChatLoading = FALSE

\* the callers of PyodideService.runPython: handleRunCode, and the handlers
\* of the Frame-of-Mind panel
Callers == {"run", "fom"}

\* no call of runPython is in progress and none has returned
NoCall == [pc |-> "idle", during |-> {}, threw |-> FALSE,
           result |-> [returned |-> FALSE, image |-> FALSE, scene3d |-> FALSE,
                       error |-> FALSE, during |-> {}]]

\* handleRunCode is not running; at names the await a running one is at
RunIdle == [at |-> "idle", file |-> ""]

InitRun ==
    /\ isExecuting = FALSE
    /\ runPc = RunIdle
    /\ pyCalls = [c \in Callers |-> NoCall]
    /\ artifacts = {}

\* private healthCheckInterval: number = 30000
healthCheckInterval == 30000

\* setTimeout(() => controller.abort(), 5000): a health check ends within
\* five seconds
abortTimeout == 5000

\* the clock advances in steps of the abort timeout, MaxTicks times at most
MaxTicks == 8
Tick == abortTimeout
MaxClock == (MaxTicks + 1) * Tick

\* the callers of the LocalLLMService: a direct isServiceAvailable() of the
\* status display, and generateResponse of the chat
LlmCallers == {"status", "chat"}

\* no call in progress, nothing answered yet
NoLlmCall ==
    [pc |-> "idle", started |-> 0,
     answer |-> [given |-> FALSE, cached |-> FALSE, value |-> FALSE, expected |-> FALSE],
     outcome |-> [done |-> FALSE, available |-> FALSE, chatRequested |-> FALSE, error |-> ""]]

\* a new LocalLLMService, at a time when Date.now() is positive
InitLlm ==
    /\ now = Tick
    /\ lastHealthCheck = 0
    /\ isAvailable = FALSE
    /\ llmCalls = [c \in LlmCallers |-> NoLlmCall]
    /\ completed = [at |-> 0, start |-> 0, result |-> FALSE]

\* most callers of initialize at a time
MaxCallers == 3
InitCallers == 1..MaxCallers

\* a new PyodideService: pyodide is null
InitInitialize ==
    /\ pyodide = 0
    /\ initCalls = [p \in InitCallers |-> "idle"]
    /\ loads = 0

\* Python's None
None == "None"

\* FOMManager.__init__ before its load_index(): no frames, no active frame
InitFom ==
    /\ frames = <<>>
    /\ active_frame = None
    /\ lastCall = [op |-> "__init__", arg |-> None, returned |-> None, before |-> None]

InitService == InitRun /\ InitLlm /\ InitInitialize /\ InitFom

InitOther ==
    /\ classified = <<>>
    /\ InitBeliefs
    /\ InitHash
    /\ InitStudy
    /\ InitService

Init == InitKb /\ InitCat /\ InitOther

\* the memo's result r becomes the component's parsedSystem and categoryStats
\* unless the callback threw
Rendered(text, r) ==
    /\ systemKb' = text
    /\ lineScanRan' = r.lineScan
    /\ IF r.threw
       THEN /\ escaped' = TRUE
            /\ UNCHANGED <<entries, validJsonCount, markdownCount, categoryStats>>
       ELSE /\ escaped' = FALSE
            /\ entries' = r.entries
            /\ validJsonCount' = r.validJsonCount
            /\ markdownCount' = r.markdownCount
            /\ categoryStats' = aggregateStats(r.entries)

\* the parsedSystem / categoryStats memo of MemoryStatus, run for a new systemKb
Render(text) == Rendered(text, parseStage(text))

\* loadResources: the startup fetch of ubp_system_kb.json, setSystemKb(text),
\* then MemoryStatus renders with the new text
LoadResources ==
    /\ ~resourcesLoaded
    /\ resourcesLoaded' = TRUE
    /\ \E text \in DocPool : Render(text)
    /\ UNCHANGED <<catVars, otherVars>>

\* CodeEditor onChange={setSystemKb}: the user types a line break and one more
\* line at the end of the text, then MemoryStatus renders with the new text
EditSystemKb ==
    /\ Len(split(systemKb, "\n")) < MaxLines
    /\ \E line \in LinePool :
          Render(systemKb \o "\n" \o line)
    /\ UNCHANGED <<resourcesLoaded, catVars, otherVars>>

Next == LoadResources \/ EditSystemKb

Spec == Init /\ [][Next]_vars

----------------------------------------------------------------------------
(* categorize as a pure function: its arguments are drawn at the start,    *)
(* it is called directly, and it is reached through the structured path    *)
(* with the document of the one entry that carries the same fields         *)

InitCategorize ==
    /\ InitKb
    /\ InitOther
    /\ cId \in IdPool
    /\ cName \in NamePool
    /\ cTags \in TagLists(MaxTags)
    /\ cLabel = ""

\* categorize(id, name, tags)
CallCategorize ==
    /\ cLabel = ""
    /\ cLabel' = categorize(JStr(cId), JStr(cName), JArr(jstrs(cTags))).label
    /\ UNCHANGED <<cId, cName, cTags>>
    /\ UNCHANGED <<kbVars, otherVars>>

\* the startup fetch delivers the document of the entry (cId, cName, cTags)
LoadEntryDoc ==
    /\ ~resourcesLoaded
    /\ resourcesLoaded' = TRUE
    /\ Render(entryDoc(cId, cName, cTags))
    /\ UNCHANGED <<catVars, otherVars>>

NextCategorize == CallCategorize \/ LoadEntryDoc

SpecCategorize == InitCategorize /\ [][NextCategorize]_vars

\* names and tags that only the broad words of rule 3 can match
BroadNamePool == {"Test", "metalanguage", "decoder"}

BroadTagPool == {"bylaw", "metal", "MAT_7", "format_x", "cell", "unit cell", "code", "unit",
                 "BIN_3", "cabin_3", "wave", "void", "word", "lab"}

RECURSIVE BroadTagLists(_)
BroadTagLists(n) ==
    IF n = 0 THEN {<<>>}
    ELSE BroadTagLists(n - 1) \cup
         {Append(ts, t) : ts \in {x \in BroadTagLists(n - 1) : Len(x) = n - 1},
                          t \in BroadTagPool}

InitBroad ==
    /\ InitKb
    /\ InitOther
    /\ cId = "UBP-1"
    /\ cName \in BroadNamePool
    /\ cTags \in BroadTagLists(MaxTags)
    /\ cLabel = ""

SpecBroad == InitBroad /\ [][NextCategorize]_vars

----------------------------------------------------------------------------
(* The parsedBeliefs memo *)

\* most elements of a beliefs array, most keys of a beliefs object
MaxBeliefs == 2

\* `${v}`: the string a template literal makes of a value
RECURSIVE jsString(_)
jsString(v) ==
    CASE v.t = "string"    -> v.s
      [] v.t = "number"    -> IF v.n < 0 THEN "-" \o intToString(0 - v.n) ELSE intToString(v.n)
      [] v.t = "boolean"   -> IF v.n = 1 THEN "true" ELSE "false"
      [] v.t = "null"      -> "null"
      [] v.t = "undefined" -> "undefined"
      [] v.t = "object"    -> "[object Object]"
      [] v.t = "array"     ->
            join([i \in 1..Len(v.items) |->
                     IF v.items[i].t \in {"null", "undefined"} THEN ""
                     ELSE jsString(v.items[i])], ",")

\* the object literal pushed for an element of a beliefs array, or for a
\* [key, value] pair of a beliefs object: idFirst is the id tried first,
\* descFirst and descSecond are the properties tried for the description
pushedBelief(item, idFirst, descFirst, descSecond) ==
    IF item.t \in {"null", "undefined"} THEN [threw |-> TRUE, entry |-> <<>>]
    ELSE [threw |-> FALSE,
          entry |-> [id |-> idFirst,
                     description |-> OrElse(GetProp(item, descFirst),
                                            OrElse(GetProp(item, descSecond),
                                                   JStr("No Description"))),
                     certainty |-> IF Truthy(GetProp(item, "nrci_score"))
                                   THEN JStr("NRCI: " \o jsString(GetProp(item, "nrci_score")))
                                   ELSE JUndef]]

\* the callback of json.forEach for an array element
beliefOfItem(item) ==
    pushedBelief(item,
                 OrElse(GetProp(item, "ubp_id"),
                        OrElse(GetProp(item, "id"),
                               OrElse(GetProp(item, "name"), JStr("Unknown")))),
                 "description", "name")

\* the callback of Object.entries(json).forEach for the pair [key, value]
beliefOfValue(key, value) == pushedBelief(value, JStr(key), "name", "description")

\* list after a forEach whose callbacks gave these results: the pushes made
\* before the first throw stay in list
pushedBeforeThrow(results) ==
    LET bad  == {i \in 1..Len(results) : results[i].threw}
        kept == IF bad = {} THEN Len(results) ELSE Least(bad) - 1
    IN  [i \in 1..kept |-> results[i].entry]

\* the try block of the memo on the parsed value; a primitive gives no entry
beliefsOfJson(json) ==
    IF json.t = "array"
    THEN pushedBeforeThrow([i \in 1..Len(json.items) |-> beliefOfItem(json.items[i])])
    ELSE IF json.t = "object"
    THEN pushedBeforeThrow([i \in 1..Len(json.keys) |->
                               beliefOfValue(json.keys[ownKeyOrder(json)[i]],
                                             json.items[ownKeyOrder(json)[i]])])
    ELSE <<>>

beliefsOfParse(p) == IF p.threw THEN <<>> ELSE beliefsOfJson(p.v)

\* the parsedBeliefs memo: JSON.parse(beliefsKb || "{}"), catch (e) { }, return list
parseBeliefs(text) == beliefsOfParse(JSONparse(IF text = "" THEN "{}" ELSE text))

\* belief elements as written: null, or an object with these string properties
BeliefElementPool == {
    [isNull |-> TRUE,  props |-> <<>>],
    [isNull |-> FALSE, props |-> <<>>],
    [isNull |-> FALSE, props |-> << <<"ubp_id", "U1">>, <<"id", "I1">>, <<"name", "N1">>,
                                    <<"description", "D1">> >>],
    [isNull |-> FALSE, props |-> << <<"id", "I2">>, <<"name", "N2">> >>],
    [isNull |-> FALSE, props |-> << <<"name", "N3">>, <<"description", "D3">>,
                                    <<"nrci_score", "0.9">> >>],
    [isNull |-> FALSE, props |-> << <<"description", "D4">> >>],
    [isNull |-> FALSE, props |-> << <<"ubp_id", "U5">>, <<"description", "D5">> >>] }

\* the JSON text of an element
beliefElementText(c) ==
    IF c.isNull THEN "null"
    ELSE "{" \o join([i \in 1..Len(c.props) |->
                         quoted(c.props[i][1]) \o ":" \o quoted(c.props[i][2])], ",") \o "}"

RECURSIVE BeliefLists(_)
BeliefLists(n) ==
    IF n = 0 THEN {<<>>}
    ELSE BeliefLists(n - 1) \cup
         {Append(cs, c) : cs \in {x \in BeliefLists(n - 1) : Len(x) = n - 1},
                          c \in BeliefElementPool}

BeliefKeys == <<"K1", "K2", "K3">>

\* the JSON array of the elements, and the JSON object with them under K1, K2, ...
beliefArrayDoc(cs) == "[" \o join([i \in 1..Len(cs) |-> beliefElementText(cs[i])], ",") \o "]"
beliefObjectDoc(cs) ==
    "{" \o join([i \in 1..Len(cs) |->
                    quoted(BeliefKeys[i]) \o ":" \o beliefElementText(cs[i])], ",") \o "}"

NonJsonBeliefTexts == {"", "not json", "[{\"id\":\"I2\"},", "7"}

\* CodeEditor onChange={setBeliefsKb} with a whole new text, then MemoryStatus
\* renders with it
EditBeliefsKb ==
    /\ \E text \in {beliefArrayDoc(cs) : cs \in BeliefLists(MaxBeliefs)}
                   \cup {beliefObjectDoc(cs) : cs \in BeliefLists(MaxBeliefs)}
                   \cup NonJsonBeliefTexts :
          /\ beliefsKb' = text
          /\ parsedBeliefs' = parseBeliefs(text)
    /\ UNCHANGED <<kbVars, catVars, serviceVars, classified, hashVars, studyVars>>

NextBeliefs == EditBeliefsKb

SpecBeliefs == Init /\ [][NextBeliefs]_vars

----------------------------------------------------------------------------
(* The parsedHash memo *)

\* most lines of a hash-memory text
MaxHashLines == 2

\* the test of the fallback on a trimmed line: it counts when it is not empty,
\* is no '#' comment and is longer than 5 characters
countedLine_FiveOrMore(trimmed) ==
    /\ trimmed /= ""
    /\ ~startsWith(trimmed, "#")
    /\ Len(trimmed) >= 5

countedLine(trimmed) ==
    /\ trimmed /= ""
    /\ ~startsWith(trimmed, "#")
    /\ Len(trimmed) > 5

\* the catch block: the lines of targetKb.split('\n') that count
countLines(lines) == Cardinality({i \in 1..Len(lines) : countedLine(trim(lines[i]))})

\* the parsedHash memo on what JSON.parse gave: an array counts its elements,
\* an object its keys, Object.keys(null) throws into the catch block, and another
\* primitive leaves count at 0
hashCount(p, text) ==
    IF p.threw THEN countLines(split(text, "\n"))
    ELSE CASE p.v.t = "array"  -> Len(p.v.items)
           [] p.v.t = "object" -> Len(p.v.keys)
           [] p.v.t = "null"   -> countLines(split(text, "\n"))
           [] OTHER            -> 0

parseHash(text) == hashCount(JSONparse(text), text)

HashLinePool ==
    { "", "   ", "abcde", "abcdef", "  abcde ", " h1:ab ", "# comment line", "  #abcdefg",
      "[1,2]", "{\"h1\":\"a\",\"h2\":\"b\"}", "null", "[\"hash1\",", "\"h\"]", "\"abcdefgh\"" }

\* the hash-memory editor emptied: onChange={setHashMemoryKb} with "", then
\* MemoryStatus renders with it
ClearHashMemoryKb ==
    /\ hashMemoryKb /= ""
    /\ hashMemoryKb' = ""
    /\ parsedHash' = parseHash("")
    /\ UNCHANGED <<kbVars, catVars, serviceVars, classified, beliefVars, studyVars>>

\* a line typed at the end of the hash-memory editor: onChange={setHashMemoryKb}
\* with the longer text, then MemoryStatus renders with it
EditHashMemoryKb ==
    /\ hashMemoryKb = "" \/ Len(split(hashMemoryKb, "\n")) < MaxHashLines
    /\ \E line \in HashLinePool :
          LET text == IF hashMemoryKb = "" THEN line ELSE hashMemoryKb \o "\n" \o line
          IN  /\ hashMemoryKb' = text
              /\ parsedHash' = parseHash(text)
    /\ UNCHANGED <<kbVars, catVars, serviceVars, classified, beliefVars, studyVars>>

NextHash == ClearHashMemoryKb \/ EditHashMemoryKb

SpecHash == Init /\ [][NextHash]_vars

----------------------------------------------------------------------------
(* Save Study and Load Study *)

\* most files of the workspace, most messages the user sends
MaxFiles == 2
MaxChat == 1
\* the longest chat of the model: the welcome, and a message and its answer
\* for each send
MaxMessages == 1 + 2 * MaxChat

\* JSON.parse(JSON.stringify(v)): strings, numbers, booleans and null come
\* back as they were, a property whose value is undefined is not written and
\* so is absent afterwards, and an undefined array element comes back as null
RECURSIVE stringifyParse(_)
stringifyParse(v) ==
    CASE v.t = "object" ->
            LET keep == SelectSeq([i \in 1..Len(v.keys) |-> i],
                                  LAMBDA i : v.items[i].t /= "undefined")
            IN  JObj([k \in 1..Len(keep) |-> v.keys[keep[k]]],
                     [k \in 1..Len(keep) |-> stringifyParse(v.items[keep[k]])])
      [] v.t = "array" ->
            JArr([i \in 1..Len(v.items) |->
                     IF v.items[i].t = "undefined" THEN JNull
                     ELSE stringifyParse(v.items[i])])
      [] OTHER -> v

\* a FileTab
FileTab(name, content, type) ==
    JObj(<<"name", "content", "type">>, <<JStr(name), JStr(content), JStr(type)>>)

\* the names handleLoadStudy filters out of the file list
EXCLUDED ==
    {"ubp_system_kb.md", "ubp_system_kb.json", "ubp_beliefs_kb.json",
     "ubp_hash_memory_kb.json", "ubp_study_kb.md", "ubp_hash_memory_kb.md"}

\* a variant that drops every file whose name starts with ubp_
cleanFiles_ByPrefix(fs) ==
    SelectSeq(fs, LAMBDA f : ~startsWith(GetProp(f, "name").s, "ubp_"))

\* data.files.filter(f => !EXCLUDED.includes(f.name))
cleanFiles(fs) == SelectSeq(fs, LAMBDA f : GetProp(f, "name").s \notin EXCLUDED)

\* FS.writeFile(resolvePath(name)) can fail only when the name holds a
\* directory: the workspace directory itself exists
mayFailToWrite(fs) == \E k \in 1..Len(fs) : includes(GetProp(fs[k], "name").s, "/")

\* names typed into the new-file box
NewFileNamePool == {"ubp_notes", "ubp_study_kb.md", "notes/x.py"}

\* submitCreateFile: a name without a dot gets .py, an existing name is
\* refused, the new script is appended; the write to the Pyodide file system
\* comes after setFiles
submitCreateFile ==
    /\ Len(files) < MaxFiles
    /\ \E typed \in NewFileNamePool :
          LET name == IF includes(typed, ".") THEN typed ELSE typed \o ".py"
          IN  /\ \A k \in 1..Len(files) : GetProp(files[k], "name").s /= name
              /\ files' = Append(files, FileTab(name, "# New Script\n", "script"))
    /\ loadOutcome' = "none"
    /\ UNCHANGED <<kbVars, catVars, serviceVars, classified, beliefVars, hashVars,
                   studyKb, chatMessages, isChatLoading, isPyodideReady, snapshot>>

userMessages == SelectSeq(chatMessages, LAMBDA msg : GetProp(msg, "role") = JStr("user"))

\* handleSendMessage up to its await: a send while a request is pending
\* returns at once; otherwise the user's message is appended and
\* setIsChatLoading(true) is called
handleSendMessage ==
    /\ ~isChatLoading
    /\ Len(userMessages) < MaxChat
    /\ Len(chatMessages) + 1 < MaxMessages
    /\ isChatLoading' = TRUE
    /\ chatMessages' =
          Append(chatMessages,
                 JObj(<<"id", "role", "content", "timestamp", "attachments">>,
                      <<JStr("1"), JStr("user"), JStr("hello"), JNum(1), JArr(<<>>)>>))
    /\ loadOutcome' = "none"
    /\ UNCHANGED <<kbVars, catVars, serviceVars, classified, beliefVars, hashVars,
                   studyKb, files, isPyodideReady, snapshot>>

\* the messages handleSendMessage appends after the await: the reply of the
\* local model (thought is undefined), or the error message of the catch block
ReplyPool ==
    { JObj(<<"id", "role", "content", "timestamp", "thought", "groundingUrls">>,
           <<JStr("2"), JStr("model"), JStr("hi"), JNum(2), JUndef, JArr(<<>>)>>),
      JObj(<<"id", "role", "content", "timestamp", "isError">>,
           <<JStr("2"), JStr("model"), JStr("Error: Local LLM not ready"), JNum(2),
             JBool(TRUE)>>) }

\* variant of the step after the await: a catch block that appends nothing
receiveReply_ErrorSwallowed ==
    /\ isChatLoading
    /\ Len(chatMessages) < MaxMessages
    /\ \E msg \in ReplyPool :
          chatMessages' = IF GetProp(msg, "isError") = JBool(TRUE) THEN chatMessages
                          ELSE Append(chatMessages, msg)
    /\ isChatLoading' = FALSE
    /\ loadOutcome' = "none"
    /\ UNCHANGED <<kbVars, catVars, serviceVars, classified, beliefVars, hashVars,
                   studyKb, files, isPyodideReady, snapshot>>

\* handleSendMessage after its await: the try block appends the answer or the
\* catch block appends the error message, the finally block calls
\* setIsChatLoading(false)
receiveReply ==
    /\ isChatLoading
    /\ Len(chatMessages) < MaxMessages
    /\ \E msg \in ReplyPool : chatMessages' = Append(chatMessages, msg)
    /\ isChatLoading' = FALSE
    /\ loadOutcome' = "none"
    /\ UNCHANGED <<kbVars, catVars, serviceVars, classified, beliefVars, hashVars,
                   studyKb, files, isPyodideReady, snapshot>>

\* CodeEditor onChange={setStudyKb}: a note is typed at the end of the study
\* knowledge base, or the text is put back
EditStudyKb ==
    /\ studyKb' = IF studyKb = InitialStudyKb THEN InitialStudyKb \o "\n- note"
                  ELSE InitialStudyKb
    /\ loadOutcome' = "none"
    /\ UNCHANGED <<kbVars, catVars, serviceVars, classified, beliefVars, hashVars,
                   files, chatMessages, isChatLoading, isPyodideReady, snapshot>>

\* initKernel: pyodideService.initialize() has resolved
initKernel ==
    /\ ~isPyodideReady
    /\ isPyodideReady' = TRUE
    /\ loadOutcome' = "none"
    /\ UNCHANGED <<kbVars, catVars, serviceVars, classified, beliefVars, hashVars,
                   studyKb, files, chatMessages, isChatLoading, snapshot>>

\* the studyData object of handleSaveStudy (Date.now() and the console logs
\* are not modelled: 0 and no logs)
studyData ==
    JObj(<<"timestamp", "files", "systemKb", "studyKb", "hashMemoryKb", "beliefsKb",
           "chatMessages", "consoleLogs">>,
         <<JNum(0), JArr(files), JStr(systemKb), JStr(studyKb), JStr(hashMemoryKb),
           JStr(beliefsKb), JArr(chatMessages), JArr(<<>>)>>)

\* handleSaveStudy: the study file is downloaded; snapshot is what was
\* handed to JSON.stringify
handleSaveStudy ==
    /\ snapshot' = [saved |-> TRUE, data |-> studyData]
    /\ loadOutcome' = "none"
    /\ UNCHANGED <<kbVars, catVars, serviceVars, classified, beliefVars, hashVars,
                   studyKb, files, chatMessages, isChatLoading, isPyodideReady>>

\* the part of handleLoadStudy after the file list: the four knowledge bases
\* and the chat are set from the study, MemoryStatus renders with them
restoreRest(data) ==
    /\ IF Truthy(GetProp(data, "systemKb"))
       THEN Render(GetProp(data, "systemKb").s)
       ELSE UNCHANGED <<systemKb, entries, validJsonCount, markdownCount, categoryStats,
                        escaped, lineScanRan>>
    /\ IF Truthy(GetProp(data, "beliefsKb"))
       THEN /\ beliefsKb' = GetProp(data, "beliefsKb").s
            /\ parsedBeliefs' = parseBeliefs(GetProp(data, "beliefsKb").s)
       ELSE UNCHANGED beliefVars
    /\ studyKb' = IF Truthy(GetProp(data, "studyKb")) THEN GetProp(data, "studyKb").s
                  ELSE studyKb
    /\ IF Truthy(GetProp(data, "hashMemoryKb"))
       THEN /\ hashMemoryKb' = GetProp(data, "hashMemoryKb").s
            /\ parsedHash' = parseHash(GetProp(data, "hashMemoryKb").s)
       ELSE UNCHANGED hashVars
    /\ chatMessages' = IF Truthy(GetProp(data, "chatMessages"))
                       THEN GetProp(data, "chatMessages").items
                       ELSE chatMessages

\* handleLoadStudy on the study file saved last: the file list is set first;
\* a write to the Pyodide file system that throws leaves everything after it
\* undone and reports the failure
handleLoadStudy ==
    /\ snapshot.saved
    /\ LET data == stringifyParse(snapshot.data)
           cleaned == cleanFiles(GetProp(data, "files").items)
       IN  /\ files' = IF Truthy(GetProp(data, "files")) THEN cleaned ELSE files
           /\ \E writeThrows \in {FALSE, isPyodideReady /\ Truthy(GetProp(data, "files"))
                                             /\ mayFailToWrite(cleaned)} :
                 IF writeThrows
                 THEN /\ loadOutcome' = "failed"
                      /\ UNCHANGED <<systemKb, entries, validJsonCount, markdownCount,
                                     categoryStats, escaped, lineScanRan, beliefVars,
                                     hashVars, studyKb, chatMessages>>
                 ELSE /\ loadOutcome' = "loaded"
                      /\ restoreRest(data)
    /\ UNCHANGED <<resourcesLoaded, catVars, serviceVars, classified, isPyodideReady, snapshot,
                   isChatLoading>>

NextStudy ==
    \/ submitCreateFile
    \/ handleSendMessage
    \/ receiveReply
    \/ EditStudyKb
    \/ initKernel
    \/ handleSaveStudy
    \/ handleLoadStudy

SpecStudy == Init /\ [][NextStudy]_vars

\* the chat alone, with the edits that change what a request carries
NextChat ==
    \/ handleSendMessage
    \/ receiveReply
    \/ EditStudyKb
    \/ submitCreateFile
    \/ initKernel

\* the provider's promise settles: the step after the await is taken
SpecChat == Init /\ [][NextChat]_vars /\ WF_vars(receiveReply)

----------------------------------------------------------------------------
(* The workspace file list *)

fileNames == {GetProp(files[k], "name").s : k \in 1..Len(files)}

\* submitRename: the trimmed new name, when it is not empty and not the old
\* name, replaces the old name in the list
submitRename ==
    /\ \E oldName \in fileNames, renameValue \in {"ubp_notes.py", " main.py ", "  "} :
          LET newName == trim(renameValue)
          IN  /\ newName /= "" /\ newName /= oldName
              /\ files' = [k \in 1..Len(files) |->
                              IF GetProp(files[k], "name").s = oldName
                              THEN FileTab(newName, GetProp(files[k], "content").s,
                                           GetProp(files[k], "type").s)
                              ELSE files[k]]
    /\ loadOutcome' = "none"
    /\ UNCHANGED <<kbVars, catVars, serviceVars, classified, beliefVars, hashVars,
                   studyKb, chatMessages, isChatLoading, isPyodideReady, snapshot>>

\* handleUploadWorkspaceFile: a file of that name is replaced, another name is
\* appended
handleUploadWorkspaceFile ==
    /\ \E name \in {"ubp_notes.py", "data.json"} :
          LET newFile == FileTab(name, "uploaded",
                                 IF includes(name, ".py") THEN "script" ELSE "data")
          IN  IF name \in fileNames
              THEN files' = [k \in 1..Len(files) |->
                                IF GetProp(files[k], "name").s = name THEN newFile
                                ELSE files[k]]
              ELSE /\ Len(files) < MaxFiles
                   /\ files' = Append(files, newFile)
    /\ loadOutcome' = "none"
    /\ UNCHANGED <<kbVars, catVars, serviceVars, classified, beliefVars, hashVars,
                   studyKb, chatMessages, isChatLoading, isPyodideReady, snapshot>>

\* handleExtractCode while the kernel is not ready: the file is named after
\* the clock, to the second, and appended
handleExtractCode ==
    /\ ~isPyodideReady
    /\ Len(files) < MaxFiles
    /\ \E timestamp \in {"20260101120000", "20260101120001"} :
          files' = Append(files, FileTab("ubp_script_" \o timestamp \o ".py", "print(1)",
                                         "script"))
    /\ loadOutcome' = "none"
    /\ UNCHANGED <<kbVars, catVars, serviceVars, classified, beliefVars, hashVars,
                   studyKb, chatMessages, isChatLoading, isPyodideReady, snapshot>>

\* confirmDelete: the files of that name leave the list
confirmDelete ==
    /\ \E name \in fileNames :
          files' = SelectSeq(files, LAMBDA f : GetProp(f, "name").s /= name)
    /\ loadOutcome' = "none"
    /\ UNCHANGED <<kbVars, catVars, serviceVars, classified, beliefVars, hashVars,
                   studyKb, chatMessages, isChatLoading, isPyodideReady, snapshot>>

\* the updater of setFiles in loadResources: each fetched file replaces the
\* file of its name or is pushed
RECURSIVE mergeFiles(_, _)
mergeFiles(combined, initialFiles) ==
    IF initialFiles = <<>> THEN combined
    ELSE LET f == Head(initialFiles)
             hits == {k \in 1..Len(combined) : GetProp(combined[k], "name") = GetProp(f, "name")}
         IN  mergeFiles(IF hits = {} THEN Append(combined, f)
                        ELSE [combined EXCEPT ![Least(hits)] = f],
                        Tail(initialFiles))

\* loadResources at its end: the fetched files are merged into the list (the
\* repository listing may name README.md a second time)
loadInitialFiles ==
    /\ \E initialFiles \in { <<FileTab("README.md", "manual", "data")>>,
                             <<FileTab("README.md", "manual", "data"),
                               FileTab("README.md", "core notes", "data")>>,
                             <<FileTab("ubp_notes.py", "fetched", "script")>> } :
          /\ Len(mergeFiles(files, initialFiles)) <= MaxFiles
          /\ files' = mergeFiles(files, initialFiles)
    /\ loadOutcome' = "none"
    /\ UNCHANGED <<kbVars, catVars, serviceVars, classified, beliefVars, hashVars,
                   studyKb, chatMessages, isChatLoading, isPyodideReady, snapshot>>

NextFiles ==
    \/ submitCreateFile
    \/ submitRename
    \/ handleUploadWorkspaceFile
    \/ handleExtractCode
    \/ confirmDelete
    \/ loadInitialFiles

SpecFiles == Init /\ [][NextFiles]_vars

----------------------------------------------------------------------------
(* Running a script: handleRunCode of the App and runPython of the        *)
(* PyodideService.  Each await of the code is a point where another        *)
(* handler may run, so each call advances in steps: the environment setup, *)
(* the cleanup, the execution of the script, the reading of the artifacts. *)

\* the files runPython looks for after a run
Artifacts == {"plot.png", "scene_3d.json"}

\* variant of the cleanup: nothing is unlinked
unlinked_Nothing(fs) == fs

\* "Cleanup previous run artifacts": plot.png and scene_3d.json are unlinked
\* when they exist
unlinked(fs) == fs \ Artifacts

\* handleRunCode up to its first await: it returns at once without an active
\* file, without a kernel or while a run is in progress; otherwise
\* setIsExecuting(true), and the active file is handed to writeFile
handleRunCode ==
    /\ isPyodideReady
    /\ ~isExecuting
    /\ \E k \in 1..Len(files) :
          runPc' = [at |-> "writeFile", file |-> GetProp(files[k], "name").s]
    /\ isExecuting' = TRUE
    /\ loadOutcome' = "none"
    /\ UNCHANGED <<kbVars, catVars, classified, beliefVars, hashVars,
                   studyKb, files, chatMessages, isChatLoading, isPyodideReady, snapshot,
                   pyCalls, artifacts, llmVars, initVars, fomVars>>

\* a call of runPython by caller c up to its first await (the environment
\* setup): the call is in progress from here
called(c) == [pyCalls EXCEPT ![c] = [pc |-> "setup", during |-> {}, threw |-> FALSE,
                                     result |-> pyCalls[c].result]]

\* the await of writeFile in handleRunCode: FS.writeFile throws for a name
\* in a directory that does not exist, and the handler ends there, with no
\* catch and no finally; otherwise runPython is called with the script
writeFile ==
    /\ runPc.at = "writeFile"
    /\ \E throws \in {FALSE, includes(runPc.file, "/")} :
          IF throws
          THEN /\ runPc' = RunIdle
               /\ UNCHANGED pyCalls
          ELSE /\ runPc' = [runPc EXCEPT !.at = "runPython"]
               /\ pyCalls' = called("run")
    /\ loadOutcome' = "none"
    /\ UNCHANGED <<kbVars, catVars, classified, beliefVars, hashVars,
                   studyKb, files, chatMessages, isChatLoading, isPyodideReady, snapshot,
                   isExecuting, artifacts, llmVars, initVars, fomVars>>

\* handleSwitchFrame: runPython is called with a FOM_MANAGER statement,
\* whether or not a run is in progress
handleSwitchFrame ==
    /\ isPyodideReady
    /\ pyCalls["fom"].pc = "idle"
    /\ pyCalls' = called("fom")
    /\ loadOutcome' = "none"
    /\ UNCHANGED <<kbVars, catVars, classified, beliefVars, hashVars,
                   studyKb, files, chatMessages, isChatLoading, isPyodideReady, snapshot,
                   isExecuting, runPc, artifacts, llmVars, initVars, fomVars>>

\* runPython after the environment setup: the artifacts of earlier runs are
\* unlinked
runPythonCleanup(c) ==
    /\ pyCalls[c].pc = "setup"
    /\ artifacts' = unlinked(artifacts)
    /\ pyCalls' = [pyCalls EXCEPT ![c].pc = "cleaned"]
    /\ loadOutcome' = "none"
    /\ UNCHANGED <<kbVars, catVars, classified, beliefVars, hashVars,
                   studyKb, files, chatMessages, isChatLoading, isPyodideReady, snapshot,
                   isExecuting, runPc, llmVars, initVars, fomVars>>

\* what a script may write: the user's script any of the artifacts, the
\* FOM_MANAGER statements none
MayWrite(c) == IF c = "run" THEN SUBSET Artifacts ELSE {{}}

\* runPythonAsync(code): the script writes some artifacts and ends or
\* throws; during records, for every call in progress, what was written
\* since the call began
runPythonExecute(c) ==
    /\ pyCalls[c].pc = "cleaned"
    /\ \E written \in MayWrite(c), threw \in BOOLEAN :
          /\ artifacts' = artifacts \cup written
          /\ pyCalls' =
                [d \in Callers |->
                    LET call == IF d = c
                                THEN [pyCalls[d] EXCEPT !.pc = "executed", !.threw = threw]
                                ELSE pyCalls[d]
                    IN  IF call.pc = "idle" THEN call
                        ELSE [call EXCEPT !.during = call.during \cup written]]
    /\ loadOutcome' = "none"
    /\ UNCHANGED <<kbVars, catVars, classified, beliefVars, hashVars,
                   studyKb, files, chatMessages, isChatLoading, isPyodideReady, snapshot,
                   isExecuting, runPc, llmVars, initVars, fomVars>>

\* the ExecutionResult of runPython: after a script that threw, the error
\* and neither image nor scene; otherwise the image when plot.png exists, and
\* the scene when scene_3d.json exists and is parsed
resultOf(call, fs, parsed) ==
    IF call.threw
    THEN [returned |-> TRUE, image |-> FALSE, scene3d |-> FALSE, error |-> TRUE,
          during |-> call.during]
    ELSE [returned |-> TRUE, image |-> "plot.png" \in fs,
          scene3d |-> "scene_3d.json" \in fs /\ parsed, error |-> FALSE,
          during |-> call.during]

\* runPython returns to its caller; handleRunCode goes on to
\* setIsExecuting(false)
runPythonReturn(c) ==
    /\ pyCalls[c].pc = "executed"
    /\ \E parsed \in BOOLEAN :
          pyCalls' = [pyCalls EXCEPT ![c] = [pc |-> "idle", during |-> {}, threw |-> FALSE,
                                             result |-> resultOf(pyCalls[c], artifacts, parsed)]]
    /\ IF c = "run"
       THEN /\ isExecuting' = FALSE
            /\ runPc' = RunIdle
       ELSE UNCHANGED <<isExecuting, runPc>>
    /\ loadOutcome' = "none"
    /\ UNCHANGED <<kbVars, catVars, classified, beliefVars, hashVars,
                   studyKb, files, chatMessages, isChatLoading, isPyodideReady, snapshot,
                   artifacts, llmVars, initVars, fomVars>>

\* the next step of the call of caller c
runPythonStep(c) == runPythonCleanup(c) \/ runPythonExecute(c) \/ runPythonReturn(c)

NextRun ==
    \/ initKernel
    \/ submitCreateFile
    \/ handleRunCode
    \/ writeFile
    \/ handleSwitchFrame
    \/ \E c \in Callers : runPythonCleanup(c)
    \/ \E c \in Callers : runPythonExecute(c)
    \/ \E c \in Callers : runPythonReturn(c)

SpecRun == Init /\ [][NextRun]_vars

\* every promise the handler awaits settles: the write ends or throws, and
\* each step of every runPython call in progress is taken
SpecRunLive == SpecRun /\ WF_vars(writeFile) /\ \A c \in Callers : WF_vars(runPythonStep(c))

----------------------------------------------------------------------------
(* The LocalLLMService: the cached health check of isServiceAvailable and  *)
(* generateResponse.  A health check is a request in flight from the call  *)
(* to its completion; the clock advances while requests are in flight.     *)

\* everything outside the LocalLLMService
notLlm == <<kbVars, catVars, classified, beliefVars, hashVars, studyVars, runVars,
            initVars, fomVars>>

\* variant of the cache test: never recent
cached_Never(last, t) == FALSE

\* "Use cached result if recent"
cached(last, t) == last > 0 /\ t - last < healthCheckInterval

\* the clock advances; a health check in flight is aborted before it is
\* older than the abort timeout
tick ==
    /\ now + Tick <= MaxClock
    /\ \A c \in LlmCallers : llmCalls[c].pc = "checking" => now - llmCalls[c].started < abortTimeout
    /\ now' = now + Tick
    /\ UNCHANGED <<notLlm, lastHealthCheck, isAvailable, llmCalls, completed>>

\* what a caller does with the answer of isServiceAvailable: the status
\* display keeps it; generateResponse throws when it is false, the catch
\* block rethrows as 'Local LLM Error: ...', and sends the chat request
\* when it is true
answered(c, call, isCached, value) ==
    LET kept == [call EXCEPT !.answer = [given |-> TRUE, cached |-> isCached, value |-> value,
                                         expected |-> completed.result]]
    IN  IF c = "status" THEN [kept EXCEPT !.pc = "idle"]
        ELSE IF value
        THEN [kept EXCEPT !.pc = "chatting",
                          !.outcome = [done |-> FALSE, available |-> TRUE,
                                       chatRequested |-> TRUE, error |-> ""]]
        ELSE [kept EXCEPT !.pc = "idle",
                          !.outcome = [done |-> TRUE, available |-> FALSE,
                                       chatRequested |-> FALSE, error |-> "Local LLM Error"]]

\* isServiceAvailable up to its await, called directly or by
\* generateResponse: the cached result is returned when recent, otherwise
\* the request for /api/tags is sent
isServiceAvailable(c) ==
    /\ llmCalls[c].pc = "idle"
    /\ llmCalls' =
          IF cached(lastHealthCheck, now)
          THEN [llmCalls EXCEPT ![c] = answered(c, llmCalls[c], TRUE, isAvailable)]
          ELSE [llmCalls EXCEPT ![c] = [NoLlmCall EXCEPT !.pc = "checking", !.started = now]]
    /\ UNCHANGED <<notLlm, now, lastHealthCheck, isAvailable, completed>>

\* isServiceAvailable after its await: the response, or null after a
\* failure or the abort, sets isAvailable, and lastHealthCheck is set to the
\* time read when the call began
healthCheckCompletes(c) ==
    /\ llmCalls[c].pc = "checking"
    /\ \E ok \in BOOLEAN :
          /\ isAvailable' = ok
          /\ completed' = [at |-> now, start |-> llmCalls[c].started, result |-> ok]
          /\ llmCalls' = [llmCalls EXCEPT
                            ![c] = [answered(c, llmCalls[c], FALSE, ok) EXCEPT
                                       !.answer.expected = ok]]
    /\ lastHealthCheck' = llmCalls[c].started
    /\ UNCHANGED <<notLlm, now>>

\* generateResponse after the await of callLLMAPI: the answer is returned,
\* or the failure of the request is rethrown as 'Local LLM Error: ...'
generateResponse ==
    /\ llmCalls["chat"].pc = "chatting"
    /\ \E failed \in BOOLEAN :
          llmCalls' = [llmCalls EXCEPT
                         !["chat"].pc = "idle",
                         !["chat"].outcome.done = TRUE,
                         !["chat"].outcome.error = IF failed THEN "Local LLM Error" ELSE ""]
    /\ UNCHANGED <<notLlm, now, lastHealthCheck, isAvailable, completed>>

NextLlm ==
    \/ tick
    \/ \E c \in LlmCallers : isServiceAvailable(c)
    \/ \E c \in LlmCallers : healthCheckCompletes(c)
    \/ generateResponse

SpecLlm == Init /\ [][NextLlm]_vars

----------------------------------------------------------------------------
(* PyodideService.initialize called by several callers: each await is a    *)
(* point where another call may begin                                      *)

\* everything outside the pyodide field of the service
notInit == <<kbVars, catVars, classified, beliefVars, hashVars, studyVars, runVars,
             llmVars, fomVars>>

\* initialize up to its first await: it returns at once when pyodide is set,
\* otherwise loadPyodide() is called and awaited
initialize(p) ==
    /\ initCalls[p] = "idle"
    /\ IF pyodide /= 0
       THEN /\ initCalls' = [initCalls EXCEPT ![p] = "returned"]
            /\ UNCHANGED loads
       ELSE /\ initCalls' = [initCalls EXCEPT ![p] = "loadPyodide"]
            /\ loads' = loads + 1
    /\ UNCHANGED <<notInit, pyodide>>

\* this.pyodide = await loadPyodide(): the runtime loaded for caller p is
\* assigned, and loadPackage is awaited
loadPyodide(p) ==
    /\ initCalls[p] = "loadPyodide"
    /\ pyodide' = p
    /\ initCalls' = [initCalls EXCEPT ![p] = "loadPackage"]
    /\ UNCHANGED <<notInit, loads>>

\* the rest of initialize: the packages are loaded and the workspace is set
\* up in the runtime pyodide holds by then; after a reset this.pyodide is
\* null and the call throws
loadPackage(p) ==
    /\ initCalls[p] = "loadPackage"
    /\ initCalls' = [initCalls EXCEPT ![p] = IF pyodide = 0 THEN "threw" ELSE "returned"]
    /\ UNCHANGED <<notInit, pyodide, loads>>

\* reset(): pyodide is null again; the loads are counted anew
reset ==
    /\ pyodide /= 0
    /\ pyodide' = 0
    /\ loads' = 0
    /\ UNCHANGED <<notInit, initCalls>>

NextInitialize ==
    \/ \E p \in InitCallers : initialize(p)
    \/ \E p \in InitCallers : loadPyodide(p)
    \/ \E p \in InitCallers : loadPackage(p)
    \/ reset

SpecInitialize == Init /\ [][NextInitialize]_vars

----------------------------------------------------------------------------
(* The Frame-of-Mind manager: the Python class FOMManager of the module    *)
(* the App writes to ubp_fom_system.py.  frames is the dict's key list in  *)
(* insertion order.                                                        *)

\* everything outside the FOMManager
notFom == <<kbVars, catVars, classified, beliefVars, hashVars, studyVars, runVars,
            llmVars, initVars>>

\* frame ids of the calls; "" is a missing frame_id
FrameIds == {"FOM_DEFAULT", "FOM_A", "FOM_B"}

\* the frames an index file may hold
IndexFiles == {<<>>, <<"FOM_A">>, <<"FOM_B", "FOM_A">>}

keys(fs) == {fs[k] : k \in 1..Len(fs)}

\* self.frames[fid] = f: a new key comes last, a known key keeps its place
setFrame(fs, fid) == IF fid \in keys(fs) THEN fs ELSE Append(fs, fid)

\* del self.frames[fid]
delFrame(fs, fid) == SelectSeq(fs, LAMBDA k : k /= fid)

\* list(self.frames.keys())[0] if self.frames else None
firstOrNone(fs) == IF fs = <<>> THEN None ELSE fs[1]

\* variant of delete_frame: the active frame is kept as it is
activeAfterDelete_Kept(fs, active, fid) == active

\* delete_frame: "If we deleted the active frame, switch to another valid one"
activeAfterDelete(fs, active, fid) ==
    IF active = fid THEN firstOrNone(delFrame(fs, fid)) ELSE active

\* load_index, called once by __init__: without an index file the default
\* frame is made and activated; with one its frames are read and the first
\* becomes active, if there is any
load_index ==
    /\ lastCall.op = "__init__"
    /\ \E hasFile \in BOOLEAN, index \in IndexFiles :
          /\ frames' = IF hasFile THEN index ELSE <<"FOM_DEFAULT">>
          /\ active_frame' = IF hasFile THEN firstOrNone(index) ELSE "FOM_DEFAULT"
    /\ lastCall' = [op |-> "load_index", arg |-> None, returned |-> None,
                    before |-> active_frame]
    /\ UNCHANGED notFom

\* update_frame_from_dict(data): without a frame_id nothing is done
update_frame_from_dict ==
    /\ lastCall.op /= "__init__"
    /\ \E fid \in FrameIds \cup {""} :
          /\ frames' = IF fid = "" THEN frames ELSE setFrame(frames, fid)
          /\ lastCall' = [op |-> "update_frame_from_dict", arg |-> fid, returned |-> None,
                          before |-> active_frame]
    /\ UNCHANGED <<notFom, active_frame>>

\* delete_frame(fid)
delete_frame ==
    /\ lastCall.op /= "__init__"
    /\ \E fid \in FrameIds :
          /\ frames' = delFrame(frames, fid)
          /\ active_frame' = IF fid \in keys(frames)
                             THEN activeAfterDelete(frames, active_frame, fid)
                             ELSE active_frame
          /\ lastCall' = [op |-> "delete_frame", arg |-> fid, returned |-> None,
                          before |-> active_frame]
    /\ UNCHANGED notFom

\* switch_frame(frame_id)
switch_frame ==
    /\ lastCall.op /= "__init__"
    /\ \E frame_id \in FrameIds :
          /\ active_frame' = IF frame_id \in keys(frames) THEN frame_id ELSE active_frame
          /\ lastCall' = [op |-> "switch_frame", arg |-> frame_id,
                          returned |-> IF frame_id \in keys(frames) THEN "True" ELSE "False",
                          before |-> active_frame]
    /\ UNCHANGED <<notFom, frames>>

NextFom ==
    \/ load_index
    \/ update_frame_from_dict
    \/ delete_frame
    \/ switch_frame

SpecFom == Init /\ [][NextFom]_vars

----------------------------------------------------------------------------
(* The classifier called again and again: the whole text of the editor is  *)
(* replaced by one of a few texts, and the history keeps the result of the *)
(* first classification of each text, in the order of the first calls      *)

ReclassifyPool == {
    "",
    "not json and no bullets",
    "[{\"ubp_id\":\"LAW_01\",\"name\":\"Test\",\"tags\":[\"SUBSTANCE\"]}]",
    "[{\"ubp_id\":\"A1\"},null]",
    "- [x] **ID1**: Some description. Tags: chemistry, lab",
    "{\"ubp_id\":\"B2\",\"name\":\"gas law\",\"tags\":[\"x\"]}," }

wasClassified(text) == \E k \in 1..Len(classified) : classified[k].text = text

\* CodeEditor onChange={setSystemKb} with a whole new text, then MemoryStatus
\* renders with it
ReplaceSystemKb ==
    /\ \E text \in ReclassifyPool :
          /\ Render(text)
          /\ classified' =
                IF wasClassified(text) THEN classified
                ELSE Append(classified,
                            [text |-> text, entries |-> entries', stats |-> categoryStats'])
    /\ UNCHANGED <<resourcesLoaded, catVars, serviceVars, beliefVars, hashVars, studyVars>>

NextReclassify == ReplaceSystemKb

SpecReclassify == Init /\ [][NextReclassify]_vars

----------------------------------------------------------------------------
(* Properties of categorize (checked under SpecCategorize)                 *)

CategoryLabels == {"SUBSTANCE", "ORGANISM", "ALGORITHM", "QUANTITY", "MECHANISM",
                   "IMPERATIVE", "ENTROPY", "MEANING", "UNCATEGORIZED"}

\* the id, after upper-casing and trimming, starts with LAW_
IsLawId(id) == startsWith(trim(toUpperCase(id)), "LAW_")

\* the canonical domain names in their stated order
CanonicalOrder == <<"SUBSTANCE", "ORGANISM", "ALGORITHM", "QUANTITY", "MECHANISM",
                    "IMPERATIVE", "ENTROPY", "MEANING">>

\* the tags or the name carry the word w, letter case and outer white space apart
Carries(w, name, tags) ==
    \/ trim(toUpperCase(name)) = w
    \/ \E i \in 1..Len(tags) : trim(toUpperCase(tags[i])) = w

CarriesCanonical(name, tags) == \E d \in 1..Len(CanonicalOrder) : Carries(CanonicalOrder[d], name, tags)

EarliestCanonical(name, tags) ==
    CanonicalOrder[CHOOSE d \in 1..Len(CanonicalOrder) :
                      /\ Carries(CanonicalOrder[d], name, tags)
                      /\ \A e \in 1..(d - 1) : ~Carries(CanonicalOrder[e], name, tags)]

\* the fields of an entry as strings
IdOf(e)   == e.id.s
NameOf(e) == e.name.s
TagsOf(e) == strsOf(e.tags.items)

\* C1: an entry whose id, after upper-casing and trimming, starts with LAW_ is
\* labelled IMPERATIVE whatever its name and tags are, both when categorize is
\* called on the fields and when the entry comes through the structured path
C1_LawIdIsImperative ==
    /\ (cLabel /= "" /\ IsLawId(cId)) => cLabel = "IMPERATIVE"
    /\ \A i \in 1..Len(entries) : IsLawId(IdOf(entries[i])) => entries[i].category = "IMPERATIVE"

\* the structured entry with ubp_id LAW_01 and tags [SUBSTANCE] is IMPERATIVE
C1_Witness ==
    /\ cId = "LAW_01" /\ cName = "Test" /\ cTags = <<"SUBSTANCE">>
    /\ cLabel = "IMPERATIVE"
    /\ systemKb = "[{\"ubp_id\":\"LAW_01\",\"name\":\"Test\",\"tags\":[\"SUBSTANCE\"]}]"
    /\ Len(entries) = 1
    /\ entries[1].category = "IMPERATIVE"

ExplicitTagWins(id, name, tags, label) ==
    CarriesCanonical(name, tags) => label = EarliestCanonical(name, tags)

\* C2 as stated: whenever the id does not start with LAW_ in any letter case
\* (the id is not trimmed) and the tags or the name carry a canonical domain
\* name, the label is the earliest such name in the stated order
C2_AsStated ==
    (cLabel /= "" /\ ~startsWith(toUpperCase(cId), "LAW_"))
        => ExplicitTagWins(cId, cName, cTags, cLabel)

\* C2: whenever the id, after upper-casing and trimming, does not start with
\* LAW_ and the tags or the name carry a canonical domain name (letter case
\* and outer white space apart), the label is the earliest such name in the
\* order SUBSTANCE, ORGANISM, ALGORITHM, QUANTITY, MECHANISM, IMPERATIVE,
\* ENTROPY, MEANING
C2_ExplicitTagWins ==
    /\ (cLabel /= "" /\ ~IsLawId(cId)) => ExplicitTagWins(cId, cName, cTags, cLabel)
    /\ \A i \in 1..Len(entries) :
          ~IsLawId(IdOf(entries[i]))
              => ExplicitTagWins(IdOf(entries[i]), NameOf(entries[i]), TagsOf(entries[i]),
                                 entries[i].category)

\* two explicit tags written against the stated order, beside a subject name
C2_Witness ==
    /\ cId = "UBP-1" /\ cName = "MATH" /\ cTags = <<"MEANING", " organism">>
    /\ cLabel = "ORGANISM"
    /\ Len(entries) = 1
    /\ entries[1].category = "ORGANISM"

\* the subject table, row by row
SubjectTable == <<
    [subjects |-> {"ENGLISH", "VOCABULARY"},             domain |-> "MEANING"],
    [subjects |-> {"PHYSICS", "EARTH", "EARTH_SCIENCE"}, domain |-> "MECHANISM"],
    [subjects |-> {"MATH", "MATHEMATICS"},               domain |-> "QUANTITY"],
    [subjects |-> {"CHEMISTRY"},                         domain |-> "SUBSTANCE"],
    [subjects |-> {"PSYCHOLOGY", "BIOLOGY"},             domain |-> "ORGANISM"],
    [subjects |-> {"PYTHON", "CS", "COMPUTER SCIENCE"},  domain |-> "ALGORITHM"] >>

\* a tag or the name equals a subject of row r, or is a VOCAB-word for row 1
CarriesSubject(r, name, tags) ==
    \/ \E w \in SubjectTable[r].subjects : Carries(w, name, tags)
    \/ r = 1 /\ \E i \in 1..(Len(tags) + 1) :
                    includes(trim(toUpperCase((tags \o <<name>>)[i])), "VOCAB")

\* the test the code makes for row q
RowTest(q, w) ==
    CASE q = 1 -> isMeaningSubject(w)
      [] q = 2 -> isMechanismSubject(w)
      [] q = 3 -> isQuantitySubject(w)
      [] q = 4 -> isSubstanceSubject(w)
      [] q = 5 -> isOrganismSubject(w)
      [] q = 6 -> isAlgorithmSubject(w)

\* an earlier row of the table matched
EarlierRow(r, name, tags) ==
    \E q \in 1..(r - 1) : \E i \in 1..(Len(tags) + 1) :
        RowTest(q, trim(toUpperCase((tags \o <<name>>)[i])))

SubjectMapped(id, name, tags, label) ==
    (~IsLawId(id) /\ ~CarriesCanonical(name, tags))
        => \A r \in 1..Len(SubjectTable) :
              (CarriesSubject(r, name, tags) /\ ~EarlierRow(r, name, tags))
                  => label = SubjectTable[r].domain

BroadTable == <<
    [domain |-> "IMPERATIVE", prefixes |-> {},
     words |-> {"LAW", "RULE", "AXIOM", "STANDARD", "PRINCIPLE", "REQ", "PROTOCOL", "COMMAND"}],
    [domain |-> "SUBSTANCE", prefixes |-> {"MAT_", "ELEM_"},
     words |-> {"ELEMENT", "PERIODIC", "METAL", "GAS", "LIQUID", "MATTER", "ATOM", "MOLECULE",
                "CHEMICAL", "MINERAL", "PLASTIC", "GRAPHENE"}],
    [domain |-> "ORGANISM", prefixes |-> {},
     words |-> {"BIO", "LIFE", "CELL", "DNA", "ORGANIC", "ANIMAL", "PLANT", "FUNGUS", "HEALTH",
                "NEURO", "BODY", "CANCER"}],
    [domain |-> "ALGORITHM", prefixes |-> {},
     words |-> {"ALGO", "CODE", "LOGIC", "COMPUTE", "DATA", "PROCESS", "FUNCTION", "NETWORK",
                "SYSTEM", "INFO", "FRACTAL"}],
    [domain |-> "QUANTITY", prefixes |-> {"BIN_"},
     words |-> {"NUM", "CONST", "UNIT", "MEASURE", "VALUE", "RATIO", "METRIC", "COORDINATE",
                "DIMENSION", "GEOMETRY", "SHAPE"}],
    [domain |-> "MECHANISM", prefixes |-> {},
     words |-> {"MECH", "PHYS", "ENERGY", "FORCE", "MOTION", "WAVE", "PARTICLE", "REACT",
                "KINETIC"}],
    [domain |-> "ENTROPY", prefixes |-> {},
     words |-> {"CHAOS", "VOID", "NULL", "ERROR", "DECAY", "NOISE", "UNKNOWN", "RANDOM"}],
    [domain |-> "MEANING", prefixes |-> {},
     words |-> {"WORD", "TERM", "SEMANTIC", "CONCEPT", "IDEA", "SYMBOL", "DEFINITION", "LANG"}] >>

\* some tag or the name, letter case and outer white space apart, holds a
\* broad word of domain d or starts with one of its prefixes
BroadHit(d, name, tags) ==
    \E i \in 1..(Len(tags) + 1) :
        LET w == trim(toUpperCase((tags \o <<name>>)[i]))
        IN  \/ \E kw \in BroadTable[d].words : includes(w, kw)
            \/ \E pre \in BroadTable[d].prefixes :
                  Len(w) >= Len(pre) /\ SubSeq(w, 1, Len(pre)) = pre

AnyBroadHit(name, tags) == \E d \in 1..Len(BroadTable) : BroadHit(d, name, tags)

FirstBroadHit(name, tags) ==
    BroadTable[CHOOSE d \in 1..Len(BroadTable) :
                  /\ BroadHit(d, name, tags)
                  /\ \A e \in 1..(d - 1) : ~BroadHit(e, name, tags)].domain

AnySubject(name, tags) == \E r \in 1..Len(SubjectTable) : CarriesSubject(r, name, tags)

FirstSubject(name, tags) ==
    SubjectTable[CHOOSE r \in 1..Len(SubjectTable) :
                    /\ CarriesSubject(r, name, tags)
                    /\ \A q \in 1..(r - 1) : ~CarriesSubject(q, name, tags)].domain

\* the result of the first matching rule, UNCATEGORIZED when none matches
FirstMatch(id, name, tags) ==
    IF IsLawId(id) THEN "IMPERATIVE"
    ELSE IF CarriesCanonical(name, tags) THEN EarliestCanonical(name, tags)
    ELSE IF AnySubject(name, tags) THEN FirstSubject(name, tags)
    ELSE IF AnyBroadHit(name, tags) THEN FirstBroadHit(name, tags)
    ELSE "UNCATEGORIZED"

\* C19: the label is the result of the first matching rule of the cascade
\* [LAW_ id, explicit domain tag, subject table, broad words], and it is
\* UNCATEGORIZED exactly when no rule matches; so a PHYSICS tag gives
\* MECHANISM even when the name holds the broad word LAW
C19_FirstMatchingRule ==
    /\ cLabel /= "" => cLabel = FirstMatch(cId, cName, cTags)
    /\ \A i \in 1..Len(entries) :
          entries[i].category
              = FirstMatch(IdOf(entries[i]), NameOf(entries[i]), TagsOf(entries[i]))

\* the structured entry UBP-1 / gas law / [PHYSICS, lab] is MECHANISM
C19_Witness ==
    /\ cId = "UBP-1" /\ cName = "gas law" /\ cTags = <<"PHYSICS", "lab">>
    /\ cLabel = "MECHANISM"
    /\ Len(entries) = 1
    /\ entries[1].category = "MECHANISM"

OnlyBroadApplies(id, name, tags) ==
    /\ ~IsLawId(id)
    /\ ~CarriesCanonical(name, tags)
    /\ ~AnySubject(name, tags)
    /\ AnyBroadHit(name, tags)

\* C20: when only the broad rule applies, the label is the first domain in the
\* order IMPERATIVE, SUBSTANCE, ORGANISM, ALGORITHM, QUANTITY, MECHANISM,
\* ENTROPY, MEANING with a hit in some tag or the name, whichever tag the
\* hits of later domains are in (checked under SpecBroad)
C20_BroadOrder ==
    /\ (cLabel /= "" /\ OnlyBroadApplies(cId, cName, cTags))
          => cLabel = FirstBroadHit(cName, cTags)
    /\ \A i \in 1..Len(entries) :
          OnlyBroadApplies(IdOf(entries[i]), NameOf(entries[i]), TagsOf(entries[i]))
              => entries[i].category = FirstBroadHit(NameOf(entries[i]), TagsOf(entries[i]))

\* a MEANING word in the first tag, an IMPERATIVE word in the second and a
\* name with an ALGORITHM word: the entry is IMPERATIVE
C20_Witness ==
    /\ cName = "decoder" /\ cTags = <<"word", "bylaw">>
    /\ cLabel = "IMPERATIVE"
    /\ Len(entries) = 1
    /\ entries[1].category = "IMPERATIVE"

\* tag lists with the same members as tags: tags with two of its places
\* exchanged, and tags with one of its members written once more at the end.
\* Every permutation is a product of exchanges, and the tag lists of the
\* model are all the lists over TagPool up to MaxTags
Rearranged(tags) ==
    {[k \in 1..Len(tags) |-> IF k = i THEN tags[j] ELSE IF k = j THEN tags[i] ELSE tags[k]] :
        i \in 1..Len(tags), j \in 2..Len(tags)}
    \cup {Append(tags, tags[i]) : i \in 1..Len(tags)}

\* C22: the label depends on the tags only through membership: exchanging
\* two tags of the list, and so every permutation of it, and repeating a tag
\* give the same label as the call gave; and the entry keeps its tags in the
\* order they were written
C22_TagOrderIrrelevant ==
    /\ (cLabel /= "" /\ ~resourcesLoaded)
          => \A ts \in Rearranged(cTags) :
                categorize(JStr(cId), JStr(cName), JArr(jstrs(ts))).label = cLabel
    /\ (resourcesLoaded /\ Len(entries) = 1) => TagsOf(entries[1]) = cTags

\* MEANING written before organism: the label is ORGANISM as for the other
\* order, and the entry keeps MEANING first
C22_Witness ==
    /\ cName = "Test" /\ cTags = <<"MEANING", " organism">>
    /\ cLabel = "ORGANISM"
    /\ categorize(JStr(cId), JStr(cName), JArr(<<JStr(" organism"), JStr("MEANING")>>)).label
          = "ORGANISM"
    /\ Len(entries) = 1
    /\ entries[1].tags = JArr(<<JStr("MEANING"), JStr(" organism")>>)

----------------------------------------------------------------------------
(* Properties of the parsedSystem memo (checked under Spec)                *)

\* C3: every entry the classifier returns carries exactly one label, and the
\* label is one of the eight domains or UNCATEGORIZED
C3_OneOfNineLabels ==
    \A i \in 1..Len(entries) : entries[i].category \in CategoryLabels

\* entries of both kinds of line, one UNCATEGORIZED and one in a domain
C3_Witness ==
    \E i, j \in 1..Len(entries) :
        /\ entries[i].raw = RawMarkdownLine
        /\ entries[i].category = "UNCATEGORIZED"
        /\ entries[j].raw = RawJsonLine
        /\ entries[j].category = "IMPERATIVE"

\* C4: whatever the input text is, the memo returns a result and no exception
\* leaves it
C4_NoExceptionPropagates == ~escaped

\* a line with a numeric ubp_id and a line that is no JSON were scanned: the
\* TypeError and the SyntaxError were both caught
C4_Witness ==
    /\ systemKb = "[]\n{\"ubp_id\":5}\n{bad"
    /\ lineScanRan
    /\ ~escaped
    /\ entries = <<>>

\* what JSON.parse makes of the whole text
WholeJson == JSONparse(IF systemKb = "" THEN "[]" ELSE systemKb)

\* the number of elements of a parsed array, or of values of another parsed value
ElementCount(v) ==
    IF v.t = "array" THEN Len(v.items) ELSE Len(objectValues(v).list)

\* C5 as stated: when the whole input parses as JSON the line scan is not run,
\* every entry comes from the structured path, and there are no more entries
\* than elements
C5_AsStated ==
    ~WholeJson.threw
        => /\ ~lineScanRan
           /\ \A i \in 1..Len(entries) : entries[i].raw = RawJsonObject
           /\ Len(entries) <= ElementCount(WholeJson.v)

\* the line parses, once trimmed and without one trailing comma, as a JSON object
IsJsonObjectLine(line) ==
    LET p == JSONparse(stripTrailingComma(trim(line)))
    IN  ~p.threw /\ p.v.t = "object"

IsBulletLine(line) == bulletMatch(line).ok

IsEntryLine(line) == IsBulletLine(line) \/ IsJsonObjectLine(line)

\* C6: for the empty text, and for a text that is no JSON and has no bullet
\* line and no JSON-object line, the entries and the statistics are empty, so
\* no percentage is computed
C6_EmptyResult ==
    (\/ systemKb = ""
     \/ /\ JSONparse(systemKb).threw
        /\ \A k \in 1..Len(split(systemKb, "\n")) : ~IsEntryLine(split(systemKb, "\n")[k]))
        => entries = <<>> /\ categoryStats = <<>>

\* a text of two lines, none of them an entry, went through the line scan
C6_Witness ==
    /\ systemKb = "not json and no bullets\n{bad"
    /\ lineScanRan
    /\ entries = <<>>
    /\ categoryStats = <<>>

\* the elements of a parsed array, or the values of a parsed object
ElementsOf(v) == IF v.t = "array" THEN v.items ELSE objectValues(v).list

\* a field of an element, the default when the field is absent or empty
FieldOr(item, key, default) ==
    IF GetProp(item, key) \in {JUndef, JStr("")} THEN default ELSE GetProp(item, key)

\* C7 as stated: a JSON array of objects, or a JSON object whose values are
\* objects, yields one entry per element, in element order, with id, name and
\* tags read from the element (UNKNOWN, Untitled and [] when absent) and the
\* element's fingerprint and score carried over
C7_AsStated ==
    (/\ ~WholeJson.threw
     /\ WholeJson.v.t \in {"array", "object"}
     /\ \A k \in 1..Len(ElementsOf(WholeJson.v)) : ElementsOf(WholeJson.v)[k].t = "object")
        => /\ Len(entries) = Len(ElementsOf(WholeJson.v))
           /\ \A k \in 1..Len(entries) :
                 /\ entries[k].id = FieldOr(ElementsOf(WholeJson.v)[k], "ubp_id", JStr("UNKNOWN"))
                 /\ entries[k].name = FieldOr(ElementsOf(WholeJson.v)[k], "name", JStr("Untitled"))
                 /\ entries[k].tags = FieldOr(ElementsOf(WholeJson.v)[k], "tags", JArr(<<>>))
                 /\ entries[k].fingerprint = GetProp(ElementsOf(WholeJson.v)[k], "fingerprint")
                 /\ entries[k].nrci = GetProp(ElementsOf(WholeJson.v)[k], "nrci")

\* the lines of the text that are entries, in order
EntryLines == SelectSeq(split(systemKb, "\n"), IsEntryLine)

\* C8 as stated: when the whole text is no JSON, the entries are exactly its
\* bullet lines and its JSON-object lines, in line order
C8_AsStated ==
    (systemKb /= "" /\ JSONparse(systemKb).threw)
        => /\ Len(entries) = Len(EntryLines)
           /\ \A k \in 1..Len(entries) :
                 entries[k].raw = IF IsBulletLine(EntryLines[k]) THEN RawMarkdownLine
                                  ELSE RawJsonLine

\* the line was written from parts of the BulletPool
IsWritten(line) == \E c \in BulletPool : bulletLine(c) = line
PartsOf(line) == CHOOSE c \in BulletPool : bulletLine(c) = line
WrittenLines == SelectSeq(split(systemKb, "\n"), IsWritten)

IsMarkdownEntry(e) == e.raw = RawMarkdownLine
MarkdownEntries == SelectSeq(entries, IsMarkdownEntry)

\* the parts hold none of the delimiters of the line's form
Undelimited(c) ==
    /\ ~includes(c.marker, "] **")
    /\ ~includes(c.id, "**: ")
    /\ ~includes(c.text, "Tags: ")

HasTagsClause(c) == c.items /= <<>>

HoldsSubjectWord(text) ==
    includes(toUpperCase(text), "VOCAB") \/ includes(toUpperCase(text), "EARTH_SCIENCE")

C21_AsStated ==
    /\ Len(MarkdownEntries) = Len(WrittenLines)
    /\ \A k \in 1..Len(MarkdownEntries) :
          (HasTagsClause(PartsOf(WrittenLines[k])) /\ Undelimited(PartsOf(WrittenLines[k])))
              => trim(NameOf(MarkdownEntries[k])) = trim(PartsOf(WrittenLines[k]).text)

\* the number of entries that carry the label
CountOf(code) == Cardinality({i \in 1..Len(entries) : entries[i].category = code})

\* the percentage is written as digits, a point, one digit and the percent sign
IsPercentText(p) ==
    /\ Len(p) >= 4
    /\ CharAt(p, Len(p)) = "%"
    /\ CharAt(p, Len(p) - 1) \in Digits
    /\ CharAt(p, Len(p) - 2) = "."
    /\ allDigits(SubSeq(p, 1, Len(p) - 3))

\* the written percentage in tenths of a percent
TenthsOf(p) ==
    10 * digitsValue(SubSeq(p, 1, Len(p) - 3), 0) + DigitVal[CharAt(p, Len(p) - 1)]

Distance(a, b) == IF a >= b THEN a - b ELSE b - a

RECURSIVE SumOfTenths(_)
SumOfTenths(stats) ==
    IF stats = <<>> THEN 0 ELSE TenthsOf(Head(stats).percent) + SumOfTenths(Tail(stats))

\* C12: whenever at least one entry was parsed, every statistic's percentage
\* is 100 * count / total written with one decimal, no further from the exact
\* value than half a tenth, where count is the number of entries with the
\* statistic's label and total the number of entries; and the percentages sum
\* to 100 within half a tenth per statistic
C12_PercentRounded ==
    entries /= <<>>
        => /\ \A k \in 1..Len(categoryStats) :
                 /\ categoryStats[k].count = CountOf(categoryStats[k].code)
                 /\ IsPercentText(categoryStats[k].percent)
                 /\ 2 * Distance(TenthsOf(categoryStats[k].percent) * Len(entries),
                                 1000 * categoryStats[k].count) <= Len(entries)
           /\ 2 * Distance(SumOfTenths(categoryStats), 1000) <= Len(categoryStats)

\* three entries in two categories: 66.7% and 33.3%
C12_Witness ==
    /\ Len(entries) = 3
    /\ Len(categoryStats) = 2
    /\ categoryStats[1].percent = "66.7%"
    /\ categoryStats[2].percent = "33.3%"

\* C13: the statistics are ordered by count, descending: of two adjacent
\* statistics the earlier one's count is at least the later one's
C13_SortedByCount ==
    \A k \in 1..(Len(categoryStats) - 1) :
        categoryStats[k].count >= categoryStats[k + 1].count

\* the category of the first entry has the smaller count and comes second
C13_Witness ==
    /\ Len(categoryStats) = 2
    /\ categoryStats[1].count > categoryStats[2].count
    /\ entries[1].category = categoryStats[2].code

RECURSIVE SumOfCounts(_)
SumOfCounts(stats) == IF stats = <<>> THEN 0 ELSE Head(stats).count + SumOfCounts(Tail(stats))

\* C23: the statistics hold exactly one record per label that occurs among the
\* entries and none for a label that does not occur, each record's count is
\* the number of entries with its label, and the counts sum to the number of
\* entries
C23_OneRecordPerLabel ==
    /\ \A i \in 1..Len(entries) :
          Cardinality({k \in 1..Len(categoryStats) :
                          categoryStats[k].code = entries[i].category}) = 1
    /\ \A k \in 1..Len(categoryStats) :
          /\ CountOf(categoryStats[k].code) >= 1
          /\ categoryStats[k].count = CountOf(categoryStats[k].code)
    /\ SumOfCounts(categoryStats) = Len(entries)

\* two entries with the same label share one record, a third label has its own
C23_Witness ==
    /\ Len(entries) = 3
    /\ Len(categoryStats) = 2
    /\ \E i, j \in 1..3 : i /= j /\ entries[i].category = entries[j].category
    /\ SumOfCounts(categoryStats) = 3

----------------------------------------------------------------------------
(* Properties of repeated classification (checked under SpecReclassify)    *)

\* C11: classification is deterministic and stateless: whenever the text on
\* display was classified before, the entries and the statistics are the ones
\* of that first call, whatever texts were classified in between
C11_SameInputSameResult ==
    \A k \in 1..Len(classified) :
        classified[k].text = systemKb
            => entries = classified[k].entries /\ categoryStats = classified[k].stats

\* the text classified first is on display again after three other texts, and
\* it has entries
C11_Witness ==
    /\ Len(classified) >= 4
    /\ classified[1].text = systemKb
    /\ entries /= <<>>
    /\ entries = classified[1].entries
    /\ categoryStats = classified[1].stats

----------------------------------------------------------------------------
(* Properties of the parsedBeliefs memo (checked under SpecBeliefs) *)

\* what JSON.parse makes of the beliefs text
BeliefsJson == JSONparse(IF beliefsKb = "" THEN "{}" ELSE beliefsKb)

\* the elements of a parsed array, the values of a parsed object
BeliefElements == IF BeliefsJson.threw THEN <<>> ELSE BeliefsJson.v.items

Has(item, key) == GetProp(item, key) \notin {JUndef, JStr("")}

\* the id the text gives for an array element
StatedId(item) ==
    IF Has(item, "ubp_id") \/ Has(item, "id")
    THEN {GetProp(item, key) : key \in {k \in {"ubp_id", "id"} : Has(item, k)}}
    ELSE {FieldOr(item, "name", JStr("Unknown"))}

\* C14 as stated: a JSON array of objects yields one BeliefEntry per element
\* whose id is the element's ubp_id or id, else its name, else "Unknown", and
\* whose description is its description, else its name, else "No Description";
\* a JSON object whose values are objects yields one BeliefEntry per key whose
\* id is the key and whose description is the value's description, or
\* "No Description" when the value has none
C14_AsStated ==
    (/\ ~BeliefsJson.threw
     /\ BeliefsJson.v.t \in {"array", "object"}
     /\ \A k \in 1..Len(BeliefElements) : BeliefElements[k].t = "object")
        => /\ Len(parsedBeliefs) = Len(BeliefElements)
           /\ BeliefsJson.v.t = "array" =>
                 \A k \in 1..Len(parsedBeliefs) :
                    /\ parsedBeliefs[k].id \in StatedId(BeliefElements[k])
                    /\ parsedBeliefs[k].description
                          = FieldOr(BeliefElements[k], "description",
                                    FieldOr(BeliefElements[k], "name", JStr("No Description")))
           /\ BeliefsJson.v.t = "object" =>
                 \A i \in 1..Len(BeliefElements) :
                    \E k \in 1..Len(parsedBeliefs) :
                       /\ parsedBeliefs[k].id = JStr(BeliefsJson.v.keys[i])
                       /\ parsedBeliefs[k].description
                             = FieldOr(BeliefElements[i], "description", JStr("No Description"))

\* the text is not JSON, or an element or value of it cannot be read
BeliefParsingFails ==
    \/ BeliefsJson.threw
    \/ /\ BeliefsJson.v.t \in {"array", "object"}
       /\ \E k \in 1..Len(BeliefElements) : BeliefElements[k].t = "null"

\* C15 as stated: whenever belief parsing fails, because the text is not JSON
\* or because an element or value cannot be read, the belief list is empty
C15_AsStated == BeliefParsingFails => parsedBeliefs = <<>>

----------------------------------------------------------------------------
(* Properties of the parsedHash memo (checked under SpecHash) *)

\* what JSON.parse makes of the hash-memory text
HashJson == JSONparse(hashMemoryKb)

HashLines == split(hashMemoryKb, "\n")

\* the lines whose trimmed text is non-empty, does not start with '#' and is
\* longer than 5 characters
ProxyLines ==
    {i \in 1..Len(HashLines) :
        LET trimmed == trim(HashLines[i])
        IN  Len(trimmed) > 5 /\ SubSeq(trimmed, 1, 1) /= "#"}

\* C16: the hash-index count is the array length when the text is a JSON array
\* and the number of keys when it is a JSON object; when the text is not valid
\* JSON it is the number of lines whose trimmed text is non-empty, does not
\* start with '#' and is longer than 5 characters
C16_HashIndexCount ==
    /\ (~HashJson.threw /\ HashJson.v.t = "array") => parsedHash = Len(HashJson.v.items)
    /\ (~HashJson.threw /\ HashJson.v.t = "object") => parsedHash = Len(HashJson.v.keys)
    /\ HashJson.threw => parsedHash = Cardinality(ProxyLines)

\* a text that is not JSON with a counted line and a line of exactly 5
\* characters, which is not counted
C16_Witness ==
    /\ hashMemoryKb = "abcde\nabcdef"
    /\ HashJson.threw
    /\ parsedHash = 1

----------------------------------------------------------------------------
(* Properties of Save Study and Load Study (checked under SpecStudy) *)

\* the files and the chat messages of the study saved last
SavedFiles == GetProp(snapshot.data, "files").items
SavedChat == GetProp(snapshot.data, "chatMessages").items

MessageKeys ==
    {"id", "role", "content", "codeBlock", "isError", "timestamp", "groundingUrls",
     "attachments", "thought"}

\* the same messages in the same order: every property reads the same
SameMessages(a, b) ==
    /\ Len(a) = Len(b)
    /\ \A k \in 1..Len(a) : \A key \in MessageKeys : GetProp(a[k], key) = GetProp(b[k], key)

\* the same files in the same order: names, contents and types
SameFiles(a, b) ==
    /\ Len(a) = Len(b)
    /\ \A k \in 1..Len(a) :
          \A key \in {"name", "content", "type"} : GetProp(a[k], key) = GetProp(b[k], key)

KbFileNames ==
    {"ubp_system_kb.md", "ubp_system_kb.json", "ubp_beliefs_kb.json",
     "ubp_hash_memory_kb.json", "ubp_study_kb.md", "ubp_hash_memory_kb.md"}

KbKeys == {"systemKb", "beliefsKb", "studyKb", "hashMemoryKb"}

\* C18 as stated: the saved study holds no knowledge-base content, and a Load
\* Study step leaves the system, beliefs, study and hash knowledge bases
\* unchanged
C18_AsStated ==
    /\ [](snapshot.saved => \A key \in KbKeys : GetProp(snapshot.data, key) = JUndef)
    /\ [][loadOutcome' /= "none" => UNCHANGED <<systemKb, beliefsKb, studyKb, hashMemoryKb>>]_vars

----------------------------------------------------------------------------
(* Properties of the workspace file list (checked under SpecFiles) *)

\* C24 as stated: no two files of the workspace file list have the same name
C24_AsStated ==
    \A i, j \in 1..Len(files) :
        GetProp(files[i], "name") = GetProp(files[j], "name") => i = j

----------------------------------------------------------------------------
(* Properties of a run (checked under SpecRun and SpecRunLive)             *)

\* C25: every run started by handleRunCode eventually sets isExecuting back
\* to false, also when the write of the active file fails
C25_AsStated == isExecuting ~> ~isExecuting

\* a run whose script was handed to runPython does end, whether the script
\* throws or not
RunPythonReturns == (runPc.at = "runPython") ~> ~isExecuting

----------------------------------------------------------------------------
(* Properties of the chat (checked under SpecChat)                         *)

modelMessages == SelectSeq(chatMessages, LAMBDA msg : GetProp(msg, "role") = JStr("model"))

\* every user message but a pending last one is followed by a model message,
\* and the model messages after the welcome are as many as the sends answered
Answered ==
    /\ \A k \in 1..Len(chatMessages) :
          GetProp(chatMessages[k], "role") = JStr("user") =>
             IF k = Len(chatMessages) THEN isChatLoading
             ELSE GetProp(chatMessages[k + 1], "role") = JStr("model")
    /\ Len(modelMessages) - 1 = Len(userMessages) - (IF isChatLoading THEN 1 ELSE 0)

\* an accepted send appends the user's message, the end of a request appends
\* one model message, and nothing else changes the chat
SendStep ==
    /\ (~isChatLoading /\ isChatLoading') =>
          /\ Len(chatMessages') = Len(chatMessages) + 1
          /\ SubSeq(chatMessages', 1, Len(chatMessages)) = chatMessages
          /\ GetProp(chatMessages'[Len(chatMessages')], "role") = JStr("user")
    /\ (isChatLoading /\ ~isChatLoading') =>
          /\ Len(chatMessages') = Len(chatMessages) + 1
          /\ SubSeq(chatMessages', 1, Len(chatMessages)) = chatMessages
          /\ GetProp(chatMessages'[Len(chatMessages')], "role") = JStr("model")
    /\ (isChatLoading' = isChatLoading) => chatMessages' = chatMessages

----------------------------------------------------------------------------
(* Properties of the LocalLLMService (checked under SpecLlm)               *)

\* a step in which some caller's request for /api/tags is sent
HealthRequestSent ==
    \E c \in LlmCallers : llmCalls[c].pc = "idle" /\ llmCalls'[c].pc = "checking"

\* C27 as stated: no health request is sent less than 30 seconds after the
\* completion of the last completed health check
C27_AsStated ==
    [][HealthRequestSent =>
          ~(completed.at > 0 /\ now - completed.at < healthCheckInterval)]_vars

\* answers taken from the cache are the result of the check that completed
\* last, and a generateResponse told that the service is unavailable has
\* sent no chat request and has failed with 'Local LLM Error'
CachedAnswers ==
    \A c \in LlmCallers :
        /\ (llmCalls[c].answer.given /\ llmCalls[c].answer.cached) =>
              llmCalls[c].answer.value = llmCalls[c].answer.expected
        /\ (llmCalls[c].answer.given /\ ~llmCalls[c].answer.value /\ c = "chat") =>
              /\ llmCalls[c].pc = "idle"
              /\ llmCalls[c].outcome.done
              /\ ~llmCalls[c].outcome.chatRequested
              /\ llmCalls[c].outcome.error = "Local LLM Error"

\* C27: no health request is sent less than 30 seconds after the beginning
\* of the health check that completed last, the cached answer is the result
\* of that check, and generateResponse sends no chat request and fails with
\* 'Local LLM Error' when the service is reported unavailable
C27_CachedFromStart ==
    /\ []CachedAnswers
    /\ [][HealthRequestSent =>
             ~(completed.at > 0 /\ now - completed.start < healthCheckInterval)]_vars

\* generateResponse has been refused on a cached answer, the result of a
\* health check that took time to complete
C27_Witness ==
    /\ llmCalls["chat"].answer.given
    /\ llmCalls["chat"].answer.cached
    /\ ~llmCalls["chat"].answer.value
    /\ llmCalls["chat"].outcome.error = "Local LLM Error"
    /\ ~llmCalls["chat"].outcome.chatRequested
    /\ completed.at > completed.start

----------------------------------------------------------------------------
(* Properties of PyodideService.initialize (checked under SpecInitialize)  *)

\* C28: whatever the interleaving of the calls of initialize, loadPyodide()
\* is called at most once between two resets
C28_AsStated == loads <= 1

----------------------------------------------------------------------------
(* Properties of the FOMManager (checked under SpecFom)                    *)

\* active_frame is None or the id of a frame in frames
ActiveIsAFrame == active_frame = None \/ active_frame \in keys(frames)

\* switch_frame to an unknown id returns False and leaves active_frame as it
\* was
SwitchUnknown ==
    (lastCall'.op = "switch_frame" /\ lastCall'.arg \notin keys(frames)) =>
        /\ lastCall'.returned = "False"
        /\ active_frame' = active_frame

\* deleting the active frame makes the first remaining frame active, or
\* None when no frame remains
DeleteActive ==
    (lastCall'.op = "delete_frame" /\ lastCall'.arg = active_frame
        /\ active_frame \in keys(frames)) =>
        /\ lastCall'.arg \notin keys(frames')
        /\ IF frames' = <<>> THEN active_frame' = None
           ELSE active_frame' \in keys(frames')

\* C30: after any sequence of update_frame_from_dict, delete_frame and
\* switch_frame, active_frame is None or the id of a frame in frames;
\* switch_frame to an unknown id returns False and changes nothing; deleting
\* the active frame moves active_frame to a remaining frame or to None
C30_ActiveFrame ==
    /\ []ActiveIsAFrame
    /\ [][SwitchUnknown /\ DeleteActive]_vars

\* the active frame has just been deleted and another frame has become
\* active
C30_Witness ==
    /\ lastCall.op = "delete_frame"
    /\ lastCall.arg = lastCall.before
    /\ lastCall.arg \notin keys(frames)
    /\ active_frame = "FOM_B"
    /\ frames = <<"FOM_B", "FOM_DEFAULT">>

====
